---- MODULE Spec2Model ----
(***************************************************************************)
(* PostXAgent: the AI manager's process orchestrator                       *)
(* (src/ai-manager/core/orchestrator.py), the GPU pool's registry and task *)
(* distributor (src/gpu-worker/postx_worker/distributed/), and a worker    *)
(* node's control client (src/gpu-worker/postx_worker/worker.py) and API   *)
(* server (src/gpu-worker/postx_worker/api/server.py).                     *)
(*                                                                         *)
(* The specifications share the variables:                                 *)
(*   Spec          the orchestrator: submit_task, cancel_task, the Redis   *)
(*                 queue listener, the worker processes, the result        *)
(*                 processor and the health monitor;                       *)
(*   LiveSpec      the same with the scheduling of its loops stated as     *)
(*                 weak fairness and with Redis reachable;                 *)
(*   PoolSpec      TaskDistributor and GPUPoolManager, one job;            *)
(*   OrderSpec     the distributor's priority queue, several jobs;         *)
(*   HeartbeatSpec GPUPoolManager alone, with its heartbeat loop;          *)
(*   CallbackSpec  the distributor with a callback set on every job;       *)
(*   CancelSpec    cancel_task of the orchestrator and of the distributor; *)
(*   AutoSpec      the distributor with jobs submitted in mode auto;       *)
(*   SplitSpec     the two batch splits, as functions of their inputs;     *)
(*   WeightSpec    the same, with compute powers of 0 among the inputs;    *)
(*   TripSpec      Task.to_dict and Task.from_dict, as functions;          *)
(*   ShutdownSpec  the orchestrator with stop(), sentinels and joins;      *)
(*   AllocSpec     initialize and stop, as functions of num_cores and      *)
(*                 max_workers_per_platform;                               *)
(*   IngestSpec    the Redis queue listener over two platforms, its loop   *)
(*                 scheduled by weak fairness;                             *)
(*   DispatchSpec  GPUPoolManager's task processor in every mode, with     *)
(*                 POSTs that fail;                                        *)
(*   ClientSpec    the control client of a worker node;                    *)
(*   NodeSpec      the API server of a worker node and its queue;          *)
(*   ReconnectSpec the control client's connection loop and its delays;    *)
(*   FrameSpec     the control client with frames it drops;                *)
(*   HealthSpec    the orchestrator over two platforms, with workers that  *)
(*                 die and the health monitor;                             *)
(*   SubmitSpec    the orchestrator with writes to Redis that fail;        *)
(*   RaceSpec      the pool and one node, the probe split at its await;    *)
(*   AssignSpec    the distributor and the pool's task processor, with the *)
(*                 worker of every POST written down.                      *)
(* None is modelled as the empty sequence where a value is optional and    *)
(* as the string "None" in the result and error fields of a record.        *)
(***************************************************************************)
EXTENDS Integers, Sequences, FiniteSets, TLC

VARIABLES
    \* ProcessOrchestrator
    worker_queues,      \* platform -> mailbox (mp.Queue), head is taken first
    result_queue,       \* the shared result channel
    active_tasks,       \* task id -> task_data, the live-task map
    completed_tasks,    \* task id -> task_data
    stats,              \* tasks_processed, tasks_failed, tasks_queued
    workers,            \* <<platform, worker_id>> -> process (alive, current_task)
    redis_pending,      \* platform -> Redis list tasks:<platform>:pending, head first
    laravel_results,    \* Redis list laravel:results, head first
    arrivals,           \* history: the submit_task calls that returned and the
                        \* records the listener popped, in order
    \* GPUPoolManager
    pool_workers,       \* the registry self.workers, in insertion order
    hb_pending,         \* the ids the heartbeat loop has yet to probe this round
    task_queue,         \* the pool's asyncio.Queue of task dicts
    \* TaskDistributor
    tasks,              \* job id -> DistributedTask
    priority_queue,     \* the asyncio.PriorityQueue, smallest entry first
    clock,              \* datetime.now(), counted in submit calls
    subtask_reports,    \* history: subtask id -> what update_task_result was told
    pushed_back,        \* history: the ids of the jobs the distributor pushed back
    recovered,          \* history: the ids of the workers a probe reached again
                        \* after a probe had failed to reach them
    \* the batch splits as functions
    split_in,           \* a batch size and the compute powers of the workers
    split_out,          \* the subtasks a split returned for split_in
    \* Task.to_dict and Task.from_dict as functions
    trip_in,            \* a Task
    trip_data,          \* <<the dict to_dict returned for trip_in>>, or <<>>
    trip_out,           \* <<the Task from_dict returned for that dict>>, or <<>>
    \* ProcessOrchestrator.stop
    phase,              \* "running"; "joining" while stop() waits for the worker
                        \* processes; "stopped" once it has closed Redis
    exited,             \* history: the workers that took a shutdown sentinel
    \* initialize and stop as functions of the settings
    alloc_in,           \* num_cores and max_workers_per_platform
    alloc_out,          \* the worker keys initialize created for alloc_in, and
                        \* the sentinels stop put on each mailbox
    \* ProcessOrchestrator._redis_queue_listener, platform by platform
    inbound,            \* platform -> Redis list laravel:tasks:<platform>, the
                        \* record rpop takes next first
    poll_at,            \* the index of the platform the listener polls next
    \* GPUPoolManager._task_processor with the modes of the pool
    send_failed,        \* history: the <<task_id, part>> whose last POST to a
                        \* node failed; part is 0 for a task sent whole and
                        \* i + 1 for the subtask "<task_id>_part<i>"
    \* GPUWorker, the control client of a worker node
    ws_open,            \* self.ws.open: the control channel is connected
    ws_inbox,           \* the frames the master sent that the reader has not
                        \* received yet
    ws_sent,            \* history: the frames the client sent, in order
    reader,             \* where _connection_loop is: at its receive, or inside
                        \* _process_task waiting for the pipeline
    handled,            \* history: the task ids whose _process_task returned
    conn,               \* where _connection_loop is: about to connect
                        \* ("attempt") or inside `async with` ("open")
    delay,              \* the local delay of _connection_loop, in seconds
    waits,              \* history: the seconds of each asyncio.sleep(delay) of
                        \* the loop, with a 0 for each connection established
    recv_log,           \* history: the kinds of the first frames the reader
                        \* handled, in order
    \* Histories of the orchestrator and of the pool
    submit_errors,      \* the task ids whose submit_task raised
    sent_to,            \* the <<task_id, worker id>> of the POSTs of the pool
                        \* that succeeded
    \* GPUPoolManager.update_worker_status, at its await
    status_reply,       \* the answers to GET /status the pool has yet to read
    \* The API server of a worker node
    state               \* WorkerState: task_queue, task_results, current_task
                        \* and the two counters

supVars == <<worker_queues, result_queue, active_tasks, completed_tasks, stats,
             workers, redis_pending, laravel_results, arrivals>>

poolVars == <<pool_workers, hb_pending, task_queue, tasks, priority_queue, clock,
              subtask_reports, pushed_back, recovered>>

splitVars == <<split_in, split_out>>

tripVars == <<trip_in, trip_data, trip_out>>

stopVars == <<phase, exited>>

\* The variables of the parts of the program that come after Task's conversions.
allocVars == <<alloc_in, alloc_out>>

ingestVars == <<inbound, poll_at>>

dispatchVars == <<send_failed>>

loopVars == <<conn, delay, waits>>

clientVars == <<ws_open, ws_inbox, ws_sent, reader, handled, loopVars, recv_log>>

nodeVars == <<state>>

probeVars == <<status_reply>>

histVars == <<submit_errors, sent_to, probeVars>>

restVars == <<stopVars, allocVars, ingestVars, dispatchVars, clientVars, nodeVars, histVars>>

vars == <<supVars, poolVars, splitVars, tripVars, restVars>>

-----------------------------------------------------------------------------
\* Bounds of the model.
MaxTasks == 2       \* task ids are 1..MaxTasks
MaxArrivals == 2    \* submit_task calls that return and records the listener pops
NumCores == 1       \* settings.worker.num_cores

TaskIds == 1..MaxTasks

Max(a, b) == IF a >= b THEN a ELSE b
Min(a, b) == IF a <= b THEN a ELSE b
Range(s) == {s[i] : i \in DOMAIN s}

\* SocialPlatform, restricted to its first member: a platform shares nothing with
\* another but the result queue, the two task maps and the counters.
SocialPlatform == <<"facebook">>
Platforms == Range(SocialPlatform)

\* settings.worker.max_retries
max_retries == 3

TerminalStatus == {"completed", "failed", "cancelled"}

-----------------------------------------------------------------------------
\* Task: the fields the orchestrator reads or writes. type, user_id, brand_id,
\* payload, priority and created_at are carried through unread and are left out.
Task(id, platform, status, retries) ==
    [id |-> id, platform |-> platform, status |-> status, retries |-> retries,
     result |-> "None", error |-> "None"]

\* Task.to_dict
to_dict(task) ==
    [id |-> task.id, platform |-> task.platform, status |-> task.status,
     retries |-> task.retries, result |-> task.result, error |-> task.error]

\* data.get(key, default)
Get(data, key, default) == IF key \in DOMAIN data THEN data[key] ELSE default

\* Task.from_dict raises KeyError when a required key is missing and ValueError
\* when the platform or the status is no member of its enum.
from_dict_raises(data) ==
    \/ ~({"id", "platform"} \subseteq DOMAIN data)
    \/ data["platform"] \notin Platforms
    \/ Get(data, "status", "pending") \notin
           {"pending", "queued", "running", "completed", "failed", "cancelled"}

\* Task.from_dict raises, with these platforms for the members of SocialPlatform.
FromDictRaises(data, platforms) ==
    \/ ~({"id", "platform"} \subseteq DOMAIN data)
    \/ data["platform"] \notin platforms
    \/ Get(data, "status", "pending") \notin
           {"pending", "queued", "running", "completed", "failed", "cancelled"}

\* Task.from_dict
from_dict(data) ==
    [id |-> data["id"], platform |-> data["platform"],
     status |-> Get(data, "status", "pending"),
     retries |-> Get(data, "retries", 0),
     result |-> Get(data, "result", "None"),
     error |-> Get(data, "error", "None")]

\* LPush as SET would do it: the key holds the last value written only.
LPush_Overwrite(list, x) == <<x>>

\* Redis LPUSH: the new element becomes the head of the list.
LPush(list, x) == <<x>> \o list

\* d[k] = v on a dict
Put(d, k, v) == [x \in DOMAIN d \cup {k} |-> IF x = k THEN v ELSE d[x]]

\* del d[k] that leaves the key in place.
Del_Keeps(d, k) == d

\* del d[k]
Del(d, k) == [x \in DOMAIN d \ {k} |-> d[x]]

-----------------------------------------------------------------------------
\* ProcessOrchestrator.initialize with num_cores // len(SocialPlatform) alone.
WorkersPerPlatform_Floor(num_cores, platforms) == num_cores \div Len(platforms)

\* ProcessOrchestrator.initialize: workers_per_platform
WorkersPerPlatform(num_cores, platforms) == Max(1, num_cores \div Len(platforms))

\* ProcessOrchestrator.initialize: the worker keys <<platform, worker_id>> it
\* creates for these cores, this list of platforms and this list of
\* high-traffic platforms.
initialize(num_cores, platforms, high_traffic) ==
    LET per == WorkersPerPlatform(num_cores, platforms)
        first == Len(platforms) * per
        remaining_cores == num_cores - first
    IN {<<platforms[k], (k - 1) * per + i>> :
           k \in DOMAIN platforms, i \in 0..(per - 1)}
       \cup {<<high_traffic[j], first + j - 1>> :
                j \in {n \in DOMAIN high_traffic : n <= remaining_cores}}

\* ProcessOrchestrator.initialize: the worker keys it creates.
workers_per_platform == Max(1, NumCores \div Len(SocialPlatform))

BaseWorkers ==
    {<<SocialPlatform[k], (k - 1) * workers_per_platform + i>> :
        k \in DOMAIN SocialPlatform, i \in 0..(workers_per_platform - 1)}

high_traffic_platforms == <<"facebook">>

ExtraWorkers ==
    LET first == Len(SocialPlatform) * workers_per_platform
        remaining_cores == NumCores - first
    IN {<<high_traffic_platforms[j], first + j - 1>> :
           j \in {n \in DOMAIN high_traffic_platforms : n <= remaining_cores}}

WorkerKeys == BaseWorkers \cup ExtraWorkers

\* ProcessOrchestrator._create_worker: a fresh process with no current task.
NewProcess == [alive |-> TRUE, current_task |-> <<>>]

InitSup ==
    /\ worker_queues = [p \in Platforms |-> <<>>]
    /\ result_queue = <<>>
    /\ active_tasks = <<>>
    /\ completed_tasks = <<>>
    /\ stats = [tasks_processed |-> 0, tasks_failed |-> 0, tasks_queued |-> 0]
    /\ workers = [w \in WorkerKeys |-> NewProcess]
    /\ redis_pending = [p \in Platforms |-> <<>>]
    /\ laravel_results = <<>>
    /\ arrivals = <<>>

-----------------------------------------------------------------------------
\* ProcessOrchestrator.submit_task
submit_task(id, platform) ==
    LET task_data == to_dict(Task(id, platform, "pending", 0)) IN
    /\ Len(arrivals) < MaxArrivals
    /\ redis_pending' = [redis_pending EXCEPT ![platform] = LPush(@, task_data)]
    /\ worker_queues' = [worker_queues EXCEPT ![platform] = Append(@, task_data)]
    /\ active_tasks' = Put(active_tasks, id, task_data)
    /\ stats' = [stats EXCEPT !.tasks_queued = @ + 1]
    /\ arrivals' = Append(arrivals, [op |-> "submit_task", data |-> task_data])
    /\ UNCHANGED <<result_queue, completed_tasks, workers, laravel_results>>

\* submit_task when redis.lpush raises: the exception leaves the method.
submit_task_redis_error(id, platform) ==
    /\ Len(arrivals) < MaxArrivals
    /\ UNCHANGED supVars

\* ProcessOrchestrator.cancel_task with the cancelled record left in the
\* live-task map.
CancelTask_KeepsLive(active, completed, task_id) ==
    IF task_id \in DOMAIN active
    THEN LET task_data == [active[task_id] EXCEPT !.status = "cancelled"] IN
         [returned |-> TRUE,
          active_tasks |-> Put(active, task_id, task_data),
          completed_tasks |-> Put(completed, task_id, task_data)]
    ELSE [returned |-> FALSE, active_tasks |-> active, completed_tasks |-> completed]

\* ProcessOrchestrator.cancel_task as a function of the two task maps: what it
\* returns and the maps it leaves.
CancelTask(active, completed, task_id) ==
    IF task_id \in DOMAIN active
    THEN LET task_data == [active[task_id] EXCEPT !.status = "cancelled"] IN
         [returned |-> TRUE,
          active_tasks |-> Del(active, task_id),
          completed_tasks |-> Put(completed, task_id, task_data)]
    ELSE [returned |-> FALSE, active_tasks |-> active, completed_tasks |-> completed]

\* ProcessOrchestrator.cancel_task on a live task
cancel_task(task_id) ==
    LET call == CancelTask(active_tasks, completed_tasks, task_id) IN
    /\ call.returned
    /\ active_tasks' = call.active_tasks
    /\ completed_tasks' = call.completed_tasks
    /\ UNCHANGED <<worker_queues, result_queue, stats, workers, redis_pending,
                   laravel_results, arrivals>>

\* ProcessOrchestrator.cancel_task on an id that is not live: it returns False.
cancel_task_refused(task_id) ==
    LET call == CancelTask(active_tasks, completed_tasks, task_id) IN
    /\ ~call.returned
    /\ active_tasks' = call.active_tasks
    /\ completed_tasks' = call.completed_tasks
    /\ UNCHANGED <<worker_queues, result_queue, stats, workers, redis_pending,
                   laravel_results, arrivals>>

\* What the backend may have pushed on laravel:tasks:<platform>.
BackendRecords(platform) ==
    {[id |-> id, platform |-> platform, status |-> "pending", retries |-> r] :
        id \in TaskIds, r \in {0}}
    \cup {[id |-> id] : id \in {1}}

\* ProcessOrchestrator._redis_queue_listener: one rpop that returned a record.
\* A record from_dict rejects is popped and lost; the exception ends the tick.
redis_queue_listener(platform, data) ==
    /\ Len(arrivals) < MaxArrivals
    /\ arrivals' = Append(arrivals, [op |-> "listener", data |-> data])
    /\ IF from_dict_raises(data)
       THEN UNCHANGED <<worker_queues, active_tasks>>
       ELSE LET task == from_dict(data) IN
            /\ worker_queues' =
                  [worker_queues EXCEPT ![platform] = Append(@, to_dict(task))]
            /\ active_tasks' = Put(active_tasks, task.id, to_dict(task))
    /\ UNCHANGED <<result_queue, completed_tasks, stats, workers, redis_pending,
                   laravel_results>>

\* The shutdown signal on a mailbox: None, written as a record as the other
\* items of a mailbox are.
Sentinel == [shutdown |-> TRUE]

\* WorkerProcess.run: task_queue.get returned a task record.
worker_take(w) ==
    /\ workers[w].alive
    /\ workers[w].current_task = <<>>
    /\ worker_queues[w[1]] # <<>>
    /\ Head(worker_queues[w[1]]) # Sentinel
    /\ LET task_data == Head(worker_queues[w[1]]) IN
       /\ worker_queues' = [worker_queues EXCEPT ![w[1]] = Tail(@)]
       /\ workers' = [workers EXCEPT ![w].current_task = <<from_dict(task_data)>>]
    /\ UNCHANGED <<result_queue, active_tasks, completed_tasks, stats,
                   redis_pending, laravel_results, arrivals>>

\* A report that says completed whatever process_task did.
Report_AlwaysCompleted(w, task, outcome) ==
    [worker_id |-> w[2], task_id |-> task.id,
     status |-> "completed",
     result |-> IF outcome = "raise" THEN "None" ELSE outcome,
     error |-> IF outcome = "raise" THEN "err" ELSE "None"]

\* The report WorkerProcess.run puts on the result queue. outcome is what
\* process_task did: returned success, returned a failure, or raised.
Report(w, task, outcome) ==
    [worker_id |-> w[2], task_id |-> task.id,
     status |-> IF outcome = "success" THEN "completed" ELSE "failed",
     result |-> IF outcome = "raise" THEN "None" ELSE outcome,
     error |-> IF outcome = "raise" THEN "err" ELSE "None"]

Outcomes == {"success", "failure", "raise"}

\* WorkerProcess.run: process_task ended and the report is put.
worker_finish(w, outcome) ==
    /\ workers[w].alive
    /\ workers[w].current_task # <<>>
    /\ result_queue' = Append(result_queue, Report(w, workers[w].current_task[1], outcome))
    /\ workers' = [workers EXCEPT ![w].current_task = <<>>]
    /\ UNCHANGED <<worker_queues, active_tasks, completed_tasks, stats,
                   redis_pending, laravel_results, arrivals>>

\* A worker process dies (killed, or crashed) and takes the task it held with
\* it. The dead process keeps current_task in the model, as the record of what
\* it held when it died; no action reads it.
worker_dies(w) ==
    /\ workers[w].alive
    /\ workers' = [workers EXCEPT ![w].alive = FALSE]
    /\ UNCHANGED <<worker_queues, result_queue, active_tasks, completed_tasks,
                   stats, redis_pending, laravel_results, arrivals>>

\* ProcessOrchestrator._health_monitor: one pass that found dead workers.
health_monitor ==
    /\ \E w \in WorkerKeys : ~workers[w].alive
    /\ workers' = [w \in WorkerKeys |->
                      IF workers[w].alive THEN workers[w] ELSE NewProcess]
    /\ UNCHANGED <<worker_queues, result_queue, active_tasks, completed_tasks,
                   stats, redis_pending, laravel_results, arrivals>>

\* The counters after a report with this status was applied.
UpdateStats(st, status) ==
    IF status = "completed"
    THEN [st EXCEPT !.tasks_processed = @ + 1]
    ELSE [st EXCEPT !.tasks_failed = @ + 1]

\* The record the result processor stores and publishes for a report.
ApplyResult(task_data, result) ==
    [task_data EXCEPT !.status = result.status, !.result = result.result,
                      !.error = result.error]

\* ProcessOrchestrator._result_processor: one report taken from the result
\* queue. redis_ok is whether redis.lpush succeeded; when it raises the maps and
\* the counters have already been written.
result_processor(redis_ok) ==
    /\ result_queue # <<>>
    /\ LET result == Head(result_queue)
           task_id == result.task_id
       IN /\ result_queue' = Tail(result_queue)
          /\ IF task_id \in DOMAIN active_tasks
             THEN LET task_data == ApplyResult(active_tasks[task_id], result) IN
                  /\ active_tasks' = Del(active_tasks, task_id)
                  /\ completed_tasks' = Put(completed_tasks, task_id, task_data)
                  /\ stats' = UpdateStats(stats, result.status)
                  /\ laravel_results' =
                        IF redis_ok THEN LPush(laravel_results, task_data)
                        ELSE laravel_results
             ELSE UNCHANGED <<active_tasks, completed_tasks, stats, laravel_results>>
    /\ UNCHANGED <<worker_queues, workers, redis_pending, arrivals>>

\* The orchestrator's steps leave the pool alone.
SupStep == UNCHANGED <<poolVars, split_in, split_out, tripVars, restVars>>

-----------------------------------------------------------------------------
\* GPUPoolManager and TaskDistributor.
\*
\* An id is the sequence of the parts of its string: <<j>> is job j and
\* <<j, i>> is its subtask "<j>_part<i>". None is <<>>.
MaxJobs == 1            \* job ids are <<1>>..<<MaxJobs>>, each submitted once
MaxOrderJobs == 2       \* the job ids of OrderSpec are <<1>>..<<MaxOrderJobs>>
MaxPoolWorkers == 2     \* worker ids are 1..MaxPoolWorkers
MaxBatch == 2           \* request["batch_size"] is 1..MaxBatch
MaxPower == 2           \* compute_power is 1..MaxPower
HeartbeatCap == 3       \* since_heartbeat stops counting here
MaxPoolQueue == 1       \* tasks other clients have on the pool's queue

None == <<>>
JobIds == {<<j>> : j \in 1..MaxJobs}
OrderJobIds == {<<j>> : j \in 1..MaxOrderJobs}
PoolWorkerIds == 1..MaxPoolWorkers
Powers == 1..MaxPower

\* TaskPriority
LOW == 1
NORMAL == 2
HIGH == 3
URGENT == 4
\* The priorities submit is called with.
Priorities == {NORMAL, HIGH}

\* What a node's GET /status reports as free_vram_gb.
FreeVram == {8}

\* WorkerNode as register_worker's callers build it: status, current_task and
\* free_vram_gb keep their defaults. since_heartbeat is now - last_heartbeat in
\* rounds of the heartbeat loop.
WorkerNode(id, compute_power) ==
    [id |-> id, status |-> "offline", current_task |-> None, free_vram_gb |-> 0,
     compute_power |-> compute_power, since_heartbeat |-> 0]

\* WorkerNode.is_available
is_available(w) == w.status = "online" /\ w.current_task = None

\* The index of the worker with this id in the registry, 0 when it has none.
IndexOf(ws, id) ==
    IF \E i \in DOMAIN ws : ws[i].id = id
    THEN CHOOSE i \in DOMAIN ws : ws[i].id = id
    ELSE 0

\* [x for x in list if Keep(x)]
Filter(list, Keep(_)) == SelectSeq(list, Keep)

\* GPUPoolManager.get_available_workers
get_available_workers == Filter(pool_workers, is_available)

\* TaskDistributor._estimate_vram_requirement for a request without model_id
_estimate_vram_requirement(type) == IF type = "video" THEN 8 ELSE 6

\* list.sort(key, reverse=True)[0]: sorting is stable, so among the elements
\* with the greatest key the first of the list comes first.
KeyLess(a, b) ==
    \/ a.compute_power < b.compute_power
    \/ a.compute_power = b.compute_power /\ a.free_vram_gb < b.free_vram_gb

SortedHead(list) ==
    LET best == {i \in DOMAIN list : \A j \in DOMAIN list : ~KeyLess(list[i], list[j])}
    IN list[CHOOSE i \in best : \A j \in best : i <= j]

\* TaskDistributor._select_best_worker choosing among all the registered
\* workers, available or not.
_select_best_worker_Registered(type) ==
    LET available == pool_workers
        required_vram == _estimate_vram_requirement(type)
        Fits(w) == w.free_vram_gb >= required_vram
        fitting == Filter(available, Fits)
        suitable == IF fitting = <<>> THEN available ELSE fitting
    IN IF available = <<>> THEN None ELSE <<SortedHead(suitable)>>

\* TaskDistributor._select_best_worker: None, or <<worker>>.
_select_best_worker(type) ==
    LET available == get_available_workers
        required_vram == _estimate_vram_requirement(type)
        Fits(w) == w.free_vram_gb >= required_vram
        fitting == Filter(available, Fits)
        suitable == IF fitting = <<>> THEN available ELSE fitting
    IN IF available = <<>> THEN None ELSE <<SortedHead(suitable)>>

\* sum(w.compute_power for w in workers)
RECURSIVE Sum(_)
Sum(powers) == IF powers = <<>> THEN 0 ELSE Head(powers) + Sum(Tail(powers))

RECURSIVE SplitLoop(_, _, _, _)
\* The loop of TaskDistributor._split_batch_task from the worker at index i
\* (counted from 1) on, with `remaining` of the batch left.
SplitLoop(batch_size, powers, i, remaining) ==
    IF i > Len(powers) \/ remaining <= 0 THEN <<>>
    ELSE LET last == (i = Len(powers))
             worker_batch ==
                 IF last THEN remaining
                 ELSE Max(1, (batch_size * powers[i]) \div Sum(powers))
             left == IF last THEN remaining ELSE remaining - worker_batch
         IN (IF worker_batch > 0
             THEN <<[part |-> i - 1, batch_size |-> worker_batch]>>
             ELSE <<>>)
            \o SplitLoop(batch_size, powers, i + 1, left)

\* TaskDistributor._split_batch_task giving every worker the same weight.
_split_batch_task_Equal(batch_size, powers) ==
    SplitLoop(batch_size, [i \in DOMAIN powers |-> 1], 1, batch_size)

\* TaskDistributor._split_batch_task: the part index and the batch size of each
\* subtask, for the compute powers of the workers in the order given.
_split_batch_task(batch_size, powers) == SplitLoop(batch_size, powers, 1, batch_size)

RECURSIVE PoolSplitLoop(_, _, _, _)
\* The loop of GPUPoolManager._distribute_combined: it has no early exit.
PoolSplitLoop(batch_size, powers, i, remaining) ==
    IF i > Len(powers) THEN <<>>
    ELSE LET last == (i = Len(powers))
             worker_batch ==
                 IF last THEN remaining
                 ELSE Max(1, (batch_size * powers[i]) \div Sum(powers))
             left == IF last THEN remaining ELSE remaining - worker_batch
         IN (IF worker_batch > 0
             THEN <<[part |-> i - 1, batch_size |-> worker_batch]>>
             ELSE <<>>)
            \o PoolSplitLoop(batch_size, powers, i + 1, left)

\* GPUPoolManager._distribute_combined: the subtasks it sends for a batch.
pool_split_batch(batch_size, powers) == PoolSplitLoop(batch_size, powers, 1, batch_size)

\* DistributedTask as TaskDistributor.submit builds it.
DistributedTask(id, type, batch_size, priority, mode, created_at) ==
    [id |-> id, type |-> type, batch_size |-> batch_size, priority |-> priority,
     mode |-> mode, status |-> "pending", assigned_workers |-> <<>>,
     subtasks |-> <<>>, created_at |-> created_at,
     \* request["requires_large_vram"] and whether a callback is set
     requires_large_vram |-> FALSE, callback |-> FALSE,
     \* history: the calls of the callback, and whether cancel_task cancelled it
     callback_calls |-> 0, was_cancelled |-> FALSE]

\* Tuple comparison of two priority queue entries (-priority, task_id); ids
\* compare as their strings do.
EntryLess(a, b) ==
    \/ a[1] < b[1]
    \/ a[1] = b[1] /\ a[2][1] < b[2][1]

\* PriorityQueue.put: the queue is kept with its smallest entry first.
PQPut(q, e) ==
    LET before == Filter(q, LAMBDA x : ~EntryLess(e, x))
        after == Filter(q, LAMBDA x : EntryLess(e, x))
    IN before \o <<e>> \o after

InitPool ==
    /\ pool_workers = <<>>
    /\ hb_pending = <<>>
    /\ task_queue = <<>>
    /\ tasks = <<>>
    /\ priority_queue = <<>>
    /\ clock = 0
    /\ subtask_reports = <<>>
    /\ pushed_back = {}
    /\ recovered = {}

\* self.workers[worker.id] = worker on a list: the record is added at the end
\* whatever the list holds.
SetWorker_Appends(ws, worker) == Append(ws, worker)

\* self.workers[worker.id] = worker: a known id keeps its place in the dict and
\* gets the new record, an unknown one is added at the end.
SetWorker(ws, worker) ==
    IF IndexOf(ws, worker.id) = 0
    THEN Append(ws, worker)
    ELSE [ws EXCEPT ![IndexOf(ws, worker.id)] = worker]

\* GPUPoolManager.unregister_worker as a function of the registry: what it
\* returns and the registry it leaves.
UnregisterWorker(ws, id) ==
    IF IndexOf(ws, id) # 0
    THEN [returned |-> TRUE, workers |-> Filter(ws, LAMBDA w : w.id # id)]
    ELSE [returned |-> FALSE, workers |-> ws]

\* GPUPoolManager.register_worker
register_worker(id, compute_power) ==
    /\ pool_workers' = SetWorker(pool_workers, WorkerNode(id, compute_power))
    /\ recovered' = recovered \ {id}
    /\ UNCHANGED <<task_queue, tasks, priority_queue, clock, subtask_reports, hb_pending, pushed_back>>

\* GPUPoolManager.unregister_worker of a registered id
unregister_worker(id) ==
    /\ UnregisterWorker(pool_workers, id).returned
    /\ pool_workers' = UnregisterWorker(pool_workers, id).workers
    /\ recovered' = recovered \ {id}
    /\ UNCHANGED <<task_queue, tasks, priority_queue, clock, subtask_reports, hb_pending, pushed_back>>

\* A probe that succeeded and left the status alone.
ProbeSucceeded_StatusKept(w, data) ==
    [w EXCEPT !.free_vram_gb = data.free_vram_gb,
              !.current_task = data.current_task,
              !.since_heartbeat = 0]

\* The record after a probe that succeeded: data is the node's answer.
ProbeSucceeded(w, data) ==
    [w EXCEPT !.free_vram_gb = data.free_vram_gb,
              !.current_task = data.current_task,
              !.status = IF data.current_task # None THEN "busy" ELSE "online",
              !.since_heartbeat = 0]

\* A probe that failed and left the record alone.
ProbeFailed_StatusKept(w) == w

\* The record after a probe that failed.
ProbeFailed(w) == [w EXCEPT !.status = "offline"]

\* The task id a node reports when it is running a task. The pool reads a
\* reported id only for being None or not.
OtherTask == <<0>>

\* What GET /status may answer.
StatusAnswers ==
    {[free_vram_gb |-> v, current_task |-> c] :
        v \in FreeVram, c \in {None, OtherTask}}

\* GPUPoolManager.update_worker_status: the registry after the probe of this
\* id. answer is <<>> when the request failed and <<data>> when it succeeded;
\* an id that is not registered is left alone.
update_worker_status(ws, id, answer) ==
    IF IndexOf(ws, id) = 0 THEN ws
    ELSE [ws EXCEPT ![IndexOf(ws, id)] =
             IF answer = <<>> THEN ProbeFailed(@) ELSE ProbeSucceeded(@, answer[1])]

\* GPUPoolManager._heartbeat_loop: asyncio.sleep is over and a round starts; it
\* will probe the ids registered now. A heartbeat period has passed.
heartbeat_round ==
    /\ hb_pending = <<>>
    /\ pool_workers # <<>>
    /\ hb_pending' = [i \in DOMAIN pool_workers |-> pool_workers[i].id]
    /\ pool_workers' = [i \in DOMAIN pool_workers |->
          [pool_workers[i] EXCEPT !.since_heartbeat = Min(HeartbeatCap, @ + 1)]]
    /\ UNCHANGED <<recovered, task_queue, tasks, priority_queue, clock, subtask_reports, pushed_back>>

\* What GET /status may answer for this id: nothing, or a status record.
ProbeAnswers(id) ==
    {<<>>} \cup
    (IF IndexOf(pool_workers, id) = 0 THEN {}
     ELSE {<<data>> : data \in StatusAnswers})

\* The workers reached again once this probe is over: it succeeded for a
\* worker that had been reached before and is offline.
Recovered(id, answer) ==
    LET i == IndexOf(pool_workers, id) IN
    IF /\ i # 0
       /\ answer # <<>>
       /\ pool_workers[i].status = "offline"
       /\ pool_workers[i].free_vram_gb # 0
    THEN recovered \cup {id}
    ELSE recovered

\* GPUPoolManager._heartbeat_loop: the next probe of the round.
heartbeat_probe(answer) ==
    /\ hb_pending # <<>>
    /\ answer \in ProbeAnswers(Head(hb_pending))
    /\ pool_workers' = update_worker_status(pool_workers, Head(hb_pending), answer)
    /\ recovered' = Recovered(Head(hb_pending), answer)
    /\ hb_pending' = Tail(hb_pending)
    /\ UNCHANGED <<task_queue, tasks, priority_queue, clock, subtask_reports, pushed_back>>

\* The task dict GPUPoolManager.submit_task puts on the pool's queue; the
\* distributor always passes mode PARALLEL.
PoolTask(task_id, batch_size) ==
    [task_id |-> task_id, mode |-> "parallel", batch_size |-> batch_size]

\* TaskDistributor.submit, for an id that was not submitted before.
submit(task_id, priority, mode, batch_size) ==
    /\ task_id \notin DOMAIN tasks
    /\ tasks' = Put(tasks, task_id,
                    DistributedTask(task_id, "image", batch_size, priority, mode, clock))
    /\ clock' = clock + 1
    /\ priority_queue' = PQPut(priority_queue, <<0 - priority, task_id>>)
    /\ UNCHANGED <<pool_workers, hb_pending, task_queue, subtask_reports, pushed_back, recovered>>

\* TaskDistributor.submit with a callback, or with requires_large_vram in the
\* request, for an id that was not submitted before.
submit_request(task_id, priority, mode, batch_size, requires_large_vram, callback) ==
    /\ task_id \notin DOMAIN tasks
    /\ tasks' = Put(tasks, task_id,
          [DistributedTask(task_id, "image", batch_size, priority, mode, clock)
              EXCEPT !.requires_large_vram = requires_large_vram,
                     !.callback = callback])
    /\ clock' = clock + 1
    /\ priority_queue' = PQPut(priority_queue, <<0 - priority, task_id>>)
    /\ UNCHANGED <<pool_workers, hb_pending, task_queue, subtask_reports, pushed_back, recovered>>

\* "<task.id>_part<i>"
PartId(task_id, i) == Append(task_id, i)

\* The compute powers of a list of workers.
PowersOf(ws) == [i \in DOMAIN ws |-> ws[i].compute_power]

\* TaskDistributor._distribute_parallel for a task popped from the queue `rest`.
_distribute_parallel(task, rest) ==
    LET worker == _select_best_worker(task.type) IN
    IF worker = None
    THEN /\ priority_queue' = PQPut(rest, <<0 - task.priority, task.id>>)
         /\ tasks' = Put(tasks, task.id, task)
         /\ pushed_back' = pushed_back \cup {task.id}
         /\ UNCHANGED task_queue
    ELSE /\ priority_queue' = rest
         /\ tasks' = Put(tasks, task.id,
                         [task EXCEPT !.assigned_workers = <<worker[1].id>>,
                                      !.status = "distributed"])
         /\ task_queue' = Append(task_queue, PoolTask(task.id, task.batch_size))
         /\ UNCHANGED pushed_back

\* TaskDistributor._distribute_combined for a task popped from the queue `rest`.
_distribute_combined(task, rest) ==
    LET available == get_available_workers IN
    IF available = <<>>
    THEN /\ priority_queue' = PQPut(rest, <<0 - task.priority, task.id>>)
         /\ tasks' = Put(tasks, task.id, task)
         /\ pushed_back' = pushed_back \cup {task.id}
         /\ UNCHANGED task_queue
    ELSE IF task.batch_size > 1
    THEN LET subtasks == _split_batch_task(task.batch_size, PowersOf(available)) IN
         /\ priority_queue' = rest
         /\ tasks' = Put(tasks, task.id,
                         [task EXCEPT !.subtasks = [i \in DOMAIN subtasks |->
                                                       PartId(task.id, subtasks[i].part)],
                                      !.status = "distributed"])
         /\ task_queue' = task_queue \o
                [i \in DOMAIN subtasks |->
                    PoolTask(PartId(task.id, subtasks[i].part), subtasks[i].batch_size)]
         /\ UNCHANGED pushed_back
    ELSE LET worker == _select_best_worker(task.type) IN
         /\ priority_queue' = rest
         /\ tasks' = Put(tasks, task.id,
                         [task EXCEPT !.assigned_workers = <<worker[1].id>>,
                                      !.status = "distributed"])
         /\ task_queue' = Append(task_queue, PoolTask(task.id, task.batch_size))
         /\ UNCHANGED pushed_back

\* TaskDistributor._distribute_task
_distribute_task(task, rest) ==
    LET queued == [task EXCEPT !.status = "queued"] IN
    IF task.mode = "combined"
    THEN _distribute_combined(queued, rest)
    ELSE _distribute_parallel(queued, rest)

\* TaskDistributor._distribution_loop: one entry taken from the priority queue.
_distribution_loop ==
    /\ priority_queue # <<>>
    /\ LET task_id == Head(priority_queue)[2]
           rest == Tail(priority_queue)
       IN IF task_id \notin DOMAIN tasks \/ tasks[task_id].status = "cancelled"
          THEN /\ priority_queue' = rest
               /\ UNCHANGED <<tasks, task_queue, pushed_back>>
          ELSE _distribute_task(tasks[task_id], rest)
    /\ UNCHANGED <<pool_workers, hb_pending, clock, subtask_reports, recovered>>

\* TaskDistributor.cancel_task as a function of the job map: what it returns
\* and the map it leaves.
DistributorCancel(ts, task_id) ==
    IF task_id \in DOMAIN ts /\ ts[task_id].status \in {"pending", "queued"}
    THEN [returned |-> TRUE,
          tasks |-> [ts EXCEPT ![task_id].status = "cancelled",
                               ![task_id].was_cancelled = TRUE]]
    ELSE [returned |-> FALSE, tasks |-> ts]

\* TaskDistributor.cancel_task when it returns True
distributor_cancel_task(task_id) ==
    LET call == DistributorCancel(tasks, task_id) IN
    /\ call.returned
    /\ tasks' = call.tasks
    /\ UNCHANGED <<pool_workers, hb_pending, task_queue, priority_queue, clock,
                   subtask_reports, pushed_back, recovered>>

\* TaskDistributor.cancel_task when it returns False
distributor_cancel_refused(task_id) ==
    LET call == DistributorCancel(tasks, task_id) IN
    /\ ~call.returned
    /\ tasks' = call.tasks
    /\ UNCHANGED <<pool_workers, hb_pending, task_queue, priority_queue, clock,
                   subtask_reports, pushed_back, recovered>>

\* The ids of the subtasks the jobs were split into.
SubtaskIds == UNION {Range(tasks[j].subtasks) : j \in DOMAIN tasks}

\* TaskDistributor._update_subtask_result: its body is `pass`.
_update_subtask_result(parent_task, subtask_id, outcome) == parent_task

MaxCallbacks == 2       \* the calls of a callback are counted up to MaxCallbacks

\* if task.callback: task.callback(task)
Called(task) ==
    IF task.callback
    THEN [task EXCEPT !.callback_calls = Min(MaxCallbacks, @ + 1)]
    ELSE task

\* TaskDistributor.update_task_result for a job or a subtask; outcome is
\* "result" when it is called with a result and "error" when with an error.
update_task_result(task_id, outcome) ==
    /\ task_id \in DOMAIN tasks \cup SubtaskIds
    /\ IF task_id \notin DOMAIN tasks
       THEN LET parent == CHOOSE j \in DOMAIN tasks : task_id \in Range(tasks[j].subtasks) IN
            /\ tasks' = [tasks EXCEPT ![parent] = _update_subtask_result(@, task_id, outcome)]
            /\ subtask_reports' = Put(subtask_reports, task_id, outcome)
       ELSE /\ tasks' = [tasks EXCEPT ![task_id] =
                   IF outcome = "error"
                   THEN Called([@ EXCEPT !.status = "failed"])
                   ELSE Called([@ EXCEPT !.status = "completed"])]
            /\ UNCHANGED subtask_reports
    /\ UNCHANGED <<pool_workers, hb_pending, task_queue, priority_queue, clock, pushed_back, recovered>>

\* available.sort(key=lambda w: w.compute_power, reverse=True)[0]
PoolSortedHead(list) ==
    LET best == {i \in DOMAIN list :
                    \A j \in DOMAIN list : list[i].compute_power >= list[j].compute_power}
    IN list[CHOOSE i \in best : \A j \in best : i <= j]

\* GPUPoolManager._send_task_to_worker when the POST succeeded
_send_task_to_worker(ws, id, task) ==
    [ws EXCEPT ![IndexOf(ws, id)].current_task = task.task_id]

\* GPUPoolManager._task_processor: one task taken from the pool's queue and
\* given to _distribute_parallel. send_ok is whether the POST to the worker
\* succeeded.
_task_processor(send_ok) ==
    /\ task_queue # <<>>
    /\ LET task == Head(task_queue)
           available == get_available_workers
       IN IF available = <<>>
          THEN /\ task_queue' = Append(Tail(task_queue), task)
               /\ UNCHANGED pool_workers
          ELSE IF send_ok
          THEN /\ pool_workers' =
                     _send_task_to_worker(pool_workers, PoolSortedHead(available).id, task)
               /\ task_queue' = Tail(task_queue)
          ELSE /\ task_queue' = Append(Tail(task_queue), task)
               /\ UNCHANGED pool_workers
    /\ UNCHANGED <<hb_pending, tasks, priority_queue, clock, subtask_reports, pushed_back,
                   recovered>>

\* GPUPoolManager.update_worker_status called for a registered id.
probe(id, answer) ==
    /\ IndexOf(pool_workers, id) # 0
    /\ answer \in ProbeAnswers(id)
    /\ pool_workers' = update_worker_status(pool_workers, id, answer)
    /\ recovered' = Recovered(id, answer)
    /\ UNCHANGED <<hb_pending, task_queue, tasks, priority_queue, clock, subtask_reports, pushed_back>>

\* GPUPoolManager.submit_task called by another client than the distributor.
pool_submit_task(task_id, batch_size) ==
    /\ Len(task_queue) < MaxPoolQueue
    /\ task_queue' = Append(task_queue, PoolTask(task_id, batch_size))
    /\ UNCHANGED <<pool_workers, hb_pending, tasks, priority_queue, clock, subtask_reports, pushed_back, recovered>>

Modes == {"parallel", "combined"}

\* The pool's steps leave the orchestrator alone.
PoolStep == UNCHANGED <<supVars, split_in, split_out, tripVars, restVars>>

MaxSplitBatch == 6      \* the batch sizes split are 2..MaxSplitBatch
MaxSplitWorkers == 4    \* a batch is split over 1..MaxSplitWorkers available workers
MaxSplitPower == 6      \* whose compute_power is 1..MaxSplitPower

\* A combined job's batch size and the compute powers of the available
\* workers, in the order of the list.
SplitInputs ==
    [batch_size : 2..MaxSplitBatch,
     powers : UNION {[1..n -> 1..MaxSplitPower] : n \in 1..MaxSplitWorkers}]

\* TaskDistributor._distribute_combined splits the batch of split_in.
distributor_split ==
    /\ split_out.by = "none"
    /\ split_out' = [by |-> "_split_batch_task",
                     subtasks |-> _split_batch_task(split_in.batch_size, split_in.powers)]
    /\ UNCHANGED <<split_in, supVars, poolVars, tripVars, restVars>>

\* GPUPoolManager._distribute_combined splits the batch of split_in.
pool_split ==
    /\ split_out.by = "none"
    /\ split_out' = [by |-> "_distribute_combined",
                     subtasks |-> pool_split_batch(split_in.batch_size, split_in.powers)]
    /\ UNCHANGED <<split_in, supVars, poolVars, tripVars, restVars>>

\* The batch splits as functions: nothing was split.
InitSplitIdle ==
    /\ split_in = [batch_size |-> 0, powers |-> <<>>]
    /\ split_out = [by |-> "none", subtasks |-> <<>>]

-----------------------------------------------------------------------------
\* Task with all its fields and their types, and its two conversions. A member
\* of an Enum is the pair of the Enum's name and the member's value; a
\* datetime is the pair of its seconds and its microsecond, and its ISO text
\* is the sequence of the numbers the text spells out, the empty text being
\* the empty sequence. An optional value x is <<x>>, and None when absent.
MaxSeconds == 1         \* created_at is 0..MaxSeconds seconds after some instant
MaxMicrosecond == 1     \* with 0..MaxMicrosecond microseconds
MaxPriority == 1        \* priority is 0..MaxPriority

TaskStatusValues == {"pending", "queued", "running", "completed", "failed", "cancelled"}

TaskTypeValues == {"generate_content", "generate_image", "post_content",
                   "schedule_post", "analyze_metrics", "monitor_engagement"}

SocialPlatformValues == {"facebook", "instagram", "tiktok", "twitter", "line",
                         "youtube", "threads", "linkedin", "pinterest"}

\* member.value
Value(member) == member[2]

\* TaskStatus(value)
TaskStatus(value) == IF value \in TaskStatusValues THEN <<"TaskStatus", value>> ELSE "ValueError"

\* TaskType(value)
TaskType(value) == IF value \in TaskTypeValues THEN <<"TaskType", value>> ELSE "ValueError"

\* SocialPlatform(value)
PlatformMember(value) ==
    IF value \in SocialPlatformValues THEN <<"SocialPlatform", value>> ELSE "ValueError"

\* datetime.isoformat(timespec="seconds"): the microseconds are not written.
isoformat_Seconds(dt) == <<dt[1]>>

\* datetime.isoformat: the microseconds are written unless they are 0.
isoformat(dt) ==
    IF dt[2] = 0 THEN <<dt[1]>> ELSE <<dt[1], dt[2]>>

\* datetime.fromisoformat
fromisoformat(text) ==
    <<text[1], IF Len(text) >= 2 THEN text[2] ELSE 0>>

\* datetime.utcnow(): an instant later than every created_at of the model.
utcnow == <<MaxSeconds + 1, 0>>

\* Task.__post_init__
post_init(task) ==
    IF task.created_at = None THEN [task EXCEPT !.created_at = utcnow] ELSE task

\* Task.to_dict, of the whole record
Task_to_dict(task) ==
    [id |-> task.id,
     type |-> Value(task.type),
     platform |-> Value(task.platform),
     user_id |-> task.user_id,
     brand_id |-> task.brand_id,
     payload |-> task.payload,
     priority |-> task.priority,
     created_at |-> isoformat(task.created_at),
     status |-> Value(task.status),
     retries |-> task.retries,
     result |-> task.result,
     error |-> task.error]

\* Task.from_dict, of the whole record; None and the empty string are falsy.
Task_from_dict(data) ==
    post_init(
    [id |-> data["id"],
     type |-> TaskType(data["type"]),
     platform |-> PlatformMember(data["platform"]),
     user_id |-> data["user_id"],
     brand_id |-> data["brand_id"],
     payload |-> data["payload"],
     priority |-> Get(data, "priority", 0),
     created_at |-> IF Get(data, "created_at", None) # None
                    THEN fromisoformat(data["created_at"]) ELSE None,
     status |-> TaskStatus(Get(data, "status", "pending")),
     retries |-> Get(data, "retries", 0),
     result |-> Get(data, "result", None),
     error |-> Get(data, "error", None)])

\* The Task objects: every kind, platform and status, retries up to
\* max_retries, result and error present or absent.
TaskObjects ==
    [id : {1},
     type : {TaskType(v) : v \in TaskTypeValues},
     platform : {PlatformMember(v) : v \in SocialPlatformValues},
     user_id : {7},
     brand_id : {3},
     payload : {[text |-> "hello"]},
     priority : 0..MaxPriority,
     created_at : (0..MaxSeconds) \X (0..MaxMicrosecond),
     status : {TaskStatus(v) : v \in TaskStatusValues},
     retries : 0..max_retries,
     result : {None, <<[post_id |-> 1]>>},
     error : {None, <<"boom">>}]

\* task.to_dict() for the task of trip_in
trip_to_dict ==
    /\ trip_data = <<>>
    /\ trip_data' = <<Task_to_dict(trip_in)>>
    /\ UNCHANGED <<trip_in, trip_out, supVars, poolVars, splitVars, restVars>>

\* Task.from_dict(data) for the dict to_dict returned
trip_from_dict ==
    /\ trip_data # <<>>
    /\ trip_out = <<>>
    /\ trip_out' = <<Task_from_dict(trip_data[1])>>
    /\ UNCHANGED <<trip_in, trip_data, supVars, poolVars, splitVars, restVars>>

\* The conversions as functions: nothing was converted.
InitTripIdle ==
    /\ trip_in = <<>>
    /\ trip_data = <<>>
    /\ trip_out = <<>>

-----------------------------------------------------------------------------
\* ProcessOrchestrator.stop and the shutdown of the worker processes.
max_workers_per_platform == 2   \* settings.worker.max_workers_per_platform

\* n shutdown signals
Sentinels(n) == [i \in 1..n |-> Sentinel]

\* stop(): the running flag is cleared and the sentinels are put on every
\* mailbox. stop() then joins the processes, which blocks the event loop.
stop_begin ==
    /\ phase = "running"
    /\ phase' = "joining"
    /\ worker_queues' = [p \in DOMAIN worker_queues |->
                            worker_queues[p] \o Sentinels(max_workers_per_platform)]
    /\ UNCHANGED <<result_queue, active_tasks, completed_tasks, stats, workers,
                   redis_pending, laravel_results, arrivals, exited>>

\* WorkerProcess.run on the shutdown signal with `continue` for `break`.
LeaveLoop_Continue(process) == process

\* WorkerProcess.run on the shutdown signal: the loop is left and the process
\* ends.
LeaveLoop(process) == [process EXCEPT !.alive = FALSE]

\* WorkerProcess.run: task_queue.get returned the shutdown signal.
worker_take_sentinel(w) ==
    /\ workers[w].alive
    /\ workers[w].current_task = <<>>
    /\ worker_queues[w[1]] # <<>>
    /\ Head(worker_queues[w[1]]) = Sentinel
    /\ worker_queues' = [worker_queues EXCEPT ![w[1]] = Tail(@)]
    /\ workers' = [workers EXCEPT ![w] = LeaveLoop(@)]
    /\ exited' = exited \cup {w}
    /\ UNCHANGED <<result_queue, active_tasks, completed_tasks, stats,
                   redis_pending, laravel_results, arrivals, phase>>

\* stop(): process.join(timeout=5) returned with the process alive, and the
\* process is terminated.
join_timeout(w) ==
    /\ phase = "joining"
    /\ workers[w].alive
    /\ workers' = [workers EXCEPT ![w].alive = FALSE]
    /\ UNCHANGED <<worker_queues, result_queue, active_tasks, completed_tasks, stats,
                   redis_pending, laravel_results, arrivals, phase, exited>>

\* stop(): every process was joined or terminated, and Redis is closed.
stop_end ==
    /\ phase = "joining"
    /\ \A w \in WorkerKeys : ~workers[w].alive
    /\ phase' = "stopped"
    /\ UNCHANGED <<supVars, exited>>

\* The steps of the shutdown leave the rest alone.
StopStep ==
    UNCHANGED <<poolVars, splitVars, tripVars, allocVars, ingestVars, dispatchVars, clientVars,
                nodeVars, histVars>>

\* The event loop runs the coroutines: stop() is not blocking it in a join.
LoopFree == phase # "joining"

MaxCores == 30          \* num_cores is 1..MaxCores
MaxPerPlatform == 3     \* max_workers_per_platform is 1..MaxPerPlatform

\* SocialPlatform, all its members in the order of the Enum.
AllPlatforms == <<"facebook", "instagram", "tiktok", "twitter", "line",
                  "youtube", "threads", "linkedin", "pinterest">>

\* initialize: high_traffic_platforms, all of them.
HighTraffic == <<"facebook", "instagram", "tiktok", "line">>

AllocInputs == [num_cores : 1..MaxCores, max_workers_per_platform : 1..MaxPerPlatform]

\* initialize() for the settings of alloc_in
alloc_initialize ==
    /\ alloc_out.by = "none"
    /\ alloc_out' = [by |-> "initialize",
                     workers |-> initialize(alloc_in.num_cores, AllPlatforms, HighTraffic),
                     sentinels |-> [p \in Range(AllPlatforms) |-> 0]]
    /\ UNCHANGED <<alloc_in, supVars, poolVars, splitVars, tripVars, stopVars, ingestVars,
                   dispatchVars, clientVars, nodeVars, histVars>>

\* stop() after initialize(): the sentinels it puts on each mailbox
alloc_stop ==
    /\ alloc_out.by = "initialize"
    /\ alloc_out' = [alloc_out EXCEPT
           !.by = "stop",
           !.sentinels = [p \in Range(AllPlatforms) |->
                             Len(Sentinels(alloc_in.max_workers_per_platform))]]
    /\ UNCHANGED <<alloc_in, supVars, poolVars, splitVars, tripVars, stopVars, ingestVars,
                   dispatchVars, clientVars, nodeVars, histVars>>

InitAllocIdle ==
    /\ alloc_in = [num_cores |-> 0, max_workers_per_platform |-> 0]
    /\ alloc_out = [by |-> "none", workers |-> {}, sentinels |-> <<>>]

MaxInbound == 1     \* the records waiting on one laravel:tasks:<platform> list
MaxIngested == 2    \* the well-formed records the backend pushes, ids 1..MaxIngested

\* SocialPlatform, restricted to its first two members in the order of the
\* Enum: the listener polls them in that order.
IngestPlatforms == <<"facebook", "instagram">>

\* A record from_dict rejects: it has no platform.
Malformed == [id |-> 0]

\* The well-formed records on the inbound lists and in the mailboxes.
Ingesting ==
    UNION {Range(inbound[p]) \cup Range(worker_queues[p]) : p \in Range(IngestPlatforms)}
        \ {Malformed}

\* The backend pushes a record on laravel:tasks:<platform>.
backend_push(platform, data) ==
    /\ Len(inbound[platform]) < MaxInbound
    /\ data # Malformed =>
          /\ data.platform = platform
          /\ \A r \in Ingesting : r.id # data.id
    /\ inbound' = [inbound EXCEPT ![platform] = Append(@, data)]
    /\ UNCHANGED <<poll_at, supVars>>

\* The platform polled after this one: the next of the list, or the first in
\* the next tick when the list is over.
NextPoll(i) == IF i = Len(IngestPlatforms) THEN 1 ELSE i + 1

\* from_dict raised: the exception leaves the for loop, and the next tick
\* begins at the first platform.
AfterRaise(i) == 1

\* ProcessOrchestrator._redis_queue_listener: one rpop of the for loop, on
\* the list of the platform at poll_at.
listener_rpop ==
    LET platform == IngestPlatforms[poll_at] IN
    IF inbound[platform] = <<>>
    THEN /\ poll_at' = NextPoll(poll_at)
         /\ UNCHANGED <<inbound, supVars>>
    ELSE LET data == Head(inbound[platform]) IN
         /\ inbound' = [inbound EXCEPT ![platform] = Tail(@)]
         /\ IF FromDictRaises(data, Range(IngestPlatforms))
            THEN /\ poll_at' = AfterRaise(poll_at)
                 /\ UNCHANGED supVars
            ELSE LET task == from_dict(data) IN
                 /\ poll_at' = NextPoll(poll_at)
                 /\ worker_queues' =
                       [worker_queues EXCEPT ![platform] = Append(@, to_dict(task))]
                 /\ active_tasks' = Put(active_tasks, task.id, to_dict(task))
                 /\ UNCHANGED <<result_queue, completed_tasks, stats, workers,
                                redis_pending, laravel_results, arrivals>>

\* The steps of the ingestion leave the rest alone.
IngestStep ==
    UNCHANGED <<poolVars, splitVars, tripVars, stopVars, allocVars, dispatchVars, clientVars,
                nodeVars, histVars>>

InitIngestIdle ==
    /\ inbound = <<>>
    /\ poll_at = 1

\* The modes GPUPoolManager.submit_task is called with.
PoolModes == {"parallel", "combined", "auto"}

\* The task dict GPUPoolManager.submit_task puts on the pool's queue for this
\* mode; the request has no requires_large_vram.
PoolTaskOf(task_id, mode, batch_size) ==
    [task_id |-> task_id, mode |-> mode, batch_size |-> batch_size]

\* GPUPoolManager.submit_task with a mode.
pool_submit_mode(task_id, mode, batch_size) ==
    /\ Len(task_queue) < MaxPoolQueue
    /\ \A i \in DOMAIN task_queue : task_queue[i].task_id # task_id
    /\ task_queue' = Append(task_queue, PoolTaskOf(task_id, mode, batch_size))
    /\ UNCHANGED <<pool_workers, hb_pending, tasks, priority_queue, clock, subtask_reports,
                   pushed_back, recovered, send_failed>>

\* GPUPoolManager._distribute_combined: the (worker, subtask) pairs of a batch
\* above 1, from the i-th available worker on, with `remaining` of the batch
\* not yet given. part is the i of "<task_id>_part<i>".
RECURSIVE distributed_tasks(_, _, _, _)
distributed_tasks(batch_size, available, i, remaining) ==
    IF i > Len(available) THEN <<>>
    ELSE LET total_power == Sum(PowersOf(available))
             worker_batch ==
                 IF i = Len(available) THEN remaining
                 ELSE Max(1, (batch_size * available[i].compute_power) \div total_power)
             rest == distributed_tasks(batch_size, available, i + 1,
                                       IF i = Len(available) THEN remaining
                                       ELSE remaining - worker_batch)
         IN IF worker_batch > 0
            THEN <<[worker |-> available[i].id, batch_size |-> worker_batch,
                    part |-> i - 1]>> \o rest
            ELSE rest

\* The registry after the POSTs of these sends that succeeded: each sets
\* current_task on its worker.
RECURSIVE SendAll(_, _, _, _)
SendAll(ws, sends, ok, task) ==
    IF sends = <<>> THEN ws
    ELSE SendAll(IF ok[Len(sends)]
                 THEN _send_task_to_worker(ws, sends[Len(sends)].worker, task)
                 ELSE ws,
                 SubSeq(sends, 1, Len(sends) - 1), ok, task)

\* send_failed after these sends: the parts whose POST failed are added, the
\* parts whose POST succeeded are removed.
Failures(task, parts, ok) ==
    (send_failed \ {<<task.task_id, parts[i]>> : i \in {k \in DOMAIN parts : ok[k]}})
        \cup {<<task.task_id, parts[i]>> : i \in {k \in DOMAIN parts : ~ok[k]}}

\* The except clause of _distribute_parallel: await self.task_queue.put(task)
Requeue(rest, task) == Append(rest, task)

\* GPUPoolManager._distribute_parallel for a task taken from the queue; ok[1]
\* is whether the POST succeeded.
pool_distribute_parallel(task, rest, ok) ==
    LET available == get_available_workers IN
    IF available = <<>>
    THEN /\ task_queue' = Append(rest, task)
         /\ UNCHANGED <<pool_workers, send_failed>>
    ELSE IF ok[1]
    THEN /\ pool_workers' =
               _send_task_to_worker(pool_workers, PoolSortedHead(available).id, task)
         /\ task_queue' = rest
         /\ send_failed' = Failures(task, <<0>>, ok)
    ELSE /\ task_queue' = Requeue(rest, task)
         /\ send_failed' = Failures(task, <<0>>, ok)
         /\ UNCHANGED pool_workers

\* GPUPoolManager._distribute_combined for a task taken from the queue; ok[i]
\* is whether the i-th POST succeeded. An exception of a POST leaves gather,
\* while the other POSTs go on, and is caught by _task_processor, which logs it.
pool_distribute_combined(task, rest, ok) ==
    LET available == get_available_workers IN
    IF available = <<>>
    THEN /\ task_queue' = Append(rest, task)
         /\ UNCHANGED <<pool_workers, send_failed>>
    ELSE IF task.batch_size > 1
    THEN LET sends == distributed_tasks(task.batch_size, available, 1, task.batch_size) IN
         /\ pool_workers' = SendAll(pool_workers, sends, ok, task)
         /\ task_queue' = rest
         /\ send_failed' = Failures(task, [i \in DOMAIN sends |-> sends[i].part + 1], ok)
    ELSE /\ pool_workers' =
               IF ok[1]
               THEN _send_task_to_worker(pool_workers, PoolSortedHead(available).id, task)
               ELSE pool_workers
         /\ task_queue' = rest
         /\ send_failed' = Failures(task, <<0>>, ok)

\* GPUPoolManager._task_processor and _distribute_task: one task taken from
\* the pool's queue and distributed by its mode. A task in mode auto has no
\* requires_large_vram and goes the parallel way.
pool_task_processor(ok) ==
    /\ task_queue # <<>>
    /\ LET task == Head(task_queue)
           rest == Tail(task_queue)
       IN IF task.mode = "combined"
          THEN pool_distribute_combined(task, rest, ok)
          ELSE pool_distribute_parallel(task, rest, ok)
    /\ UNCHANGED <<hb_pending, tasks, priority_queue, clock, subtask_reports, pushed_back,
                   recovered>>

\* The outcomes of the POSTs of one step: one per available worker at most.
SendOutcomes == [1..MaxPoolWorkers -> BOOLEAN]

\* The steps of the pool's dispatch leave the rest alone.
DispatchStep ==
    UNCHANGED <<supVars, splitVars, tripVars, stopVars, allocVars, ingestVars, clientVars,
                nodeVars, histVars>>

InitDispatchIdle == send_failed = {}

MaxClientTasks == 2     \* the task frames the master sends have task_id 1..MaxClientTasks
MaxPings == 1           \* the pings the master has sent and that wait or were answered
MaxConnects == 2        \* the times the client connects to the master
MaxFrames == 2          \* the frames waiting in the channel
MaxWaits == 6           \* a connection attempt fails while waits is shorter than this
MaxLog == 2             \* the frames recv_log keeps

_reconnect_delay == 5
_max_reconnect_delay == 60

\* The frames the master sends.
Ping == [type |-> "ping"]
TaskFrame(task_id, task_type) ==
    [type |-> "task", task_id |-> task_id, task_type |-> task_type]

\* A message that is no JSON document.
Garbled == [raw |-> "not json"]

\* A frame of a type the client does not know.
Unknown == [type |-> "bogus"]

\* An unload_model frame; raises is whether _unload_model raises on it.
UnloadFrame(raises) == [type |-> "unload_model", raises |-> raises]

\* The frames the client sends.
Pong == [type |-> "pong"]
Register == [type |-> "register"]
TaskStatusFrame(task_id, status) ==
    [type |-> "task_status", task_id |-> task_id, status |-> status]

\* GPUWorker._send_result's frame
ResultFrame(task_id) ==
    [type |-> "task_result", task_id |-> task_id, status |-> "completed",
     result |-> "images"]

\* GPUWorker._send_error's frame
ErrorFrame(task_id, error) ==
    [type |-> "task_result", task_id |-> task_id, status |-> "failed", error |-> error]

\* The kind of a message: its type, or garbled when json.loads raises on it.
Kind(data) == IF "type" \in DOMAIN data THEN data.type ELSE "garbled"

\* GPUWorker._send_status_update, _send_result, _send_error: the frame is sent
\* if self.ws.open, and nothing happens otherwise. A send on a closed channel
\* raises, which _process_task and _handle_message catch: nothing is sent then
\* either.
Send(sent, frame) == IF ws_open THEN Append(sent, frame) ELSE sent

\* How many of these frames satisfy Is.
Count(frames, Is(_)) == Len(SelectSeq(frames, Is))

IsRegister(f) == f.type = "register"
IsPong(f) == f.type = "pong"
IsPing(f) == Kind(f) = "ping"

\* The task ids the master has sent a frame for.
ClientTaskIds ==
    {f.task_id : f \in {g \in Range(ws_inbox) : Kind(g) = "task"}}
        \cup handled
        \cup (IF reader.at = "pipeline" THEN {reader.task_id} ELSE {})

AtRecv == [at |-> "recv"]

\* GPUWorker._connection_loop: websockets.connect succeeds and _register
\* sends the registration. The loop gets here when the channel is closed and
\* the message loop has ended, which it does once the frames received before
\* the close are handled.
connect ==
    /\ conn = "attempt"
    /\ reader = AtRecv
    /\ ~ws_open
    /\ ws_inbox = <<>>
    /\ Count(ws_sent, IsRegister) < MaxConnects
    /\ ws_open' = TRUE
    /\ ws_sent' = Append(ws_sent, Register)
    /\ conn' = "open"
    /\ delay' = _reconnect_delay
    /\ waits' = Append(waits, 0)
    /\ UNCHANGED <<ws_inbox, reader, handled, recv_log>>

\* delay = delay * 2, without the maximum.
NextDelay_Unclamped(d) == d * 2

\* delay = min(delay * 2, self._max_reconnect_delay)
NextDelay(d) == Min(d * 2, _max_reconnect_delay)

\* GPUWorker._connection_loop: websockets.connect raises; the loop sleeps
\* for delay and doubles it.
connect_fails ==
    /\ conn = "attempt"
    /\ Len(waits) < MaxWaits
    /\ waits' = Append(waits, delay)
    /\ delay' = NextDelay(delay)
    /\ UNCHANGED <<ws_open, ws_inbox, ws_sent, reader, handled, conn, recv_log>>

\* GPUWorker._connection_loop: the channel is closed and every frame received
\* before is handled, so `async for message in ws` ends; the loop sleeps for
\* delay and doubles it.
loop_ends ==
    /\ conn = "open"
    /\ reader = AtRecv
    /\ ~ws_open
    /\ ws_inbox = <<>>
    /\ waits' = Append(waits, delay)
    /\ delay' = NextDelay(delay)
    /\ conn' = "attempt"
    /\ UNCHANGED <<ws_open, ws_inbox, ws_sent, reader, handled, recv_log>>

\* The control channel is closed, by the master or by the network.
channel_close ==
    /\ ws_open
    /\ ws_open' = FALSE
    /\ UNCHANGED <<ws_inbox, ws_sent, reader, handled, loopVars, recv_log>>

\* The master sends a frame on the channel.
master_send(frame) ==
    /\ ws_open
    /\ Len(ws_inbox) < MaxFrames
    /\ Kind(frame) = "ping" =>
          Count(ws_inbox, IsPing) + Count(ws_sent, IsPong) < MaxPings
    /\ Kind(frame) = "task" => frame.task_id \notin ClientTaskIds
    /\ ws_inbox' = Append(ws_inbox, frame)
    /\ UNCHANGED <<ws_open, ws_sent, reader, handled, loopVars, recv_log>>

\* await self._process_task(data): the reader is inside _process_task until
\* the pipeline has returned.
AwaitPipeline(task_id) == [at |-> "pipeline", task_id |-> task_id]

\* _handle_message sends nothing for this message: json.loads raises on it,
\* its type is unknown, or its handler sends nothing, whether it returns or
\* raises. The exceptions are caught and logged.
Dropped(data) == Kind(data) \notin {"ping", "task"}

\* The channel after a message was dropped, were the client to close it.
AfterDropped_Closes(open) == FALSE

\* The channel after a message was dropped: _handle_message returns and
\* `async for` goes on.
AfterDropped(open) == open

\* GPUWorker._connection_loop and _handle_message: the next frame of
\* `async for message in ws` is received and handled. A task frame takes
\* _process_task to its await of asyncio.to_thread(generator.generate).
reader_recv ==
    /\ reader = AtRecv
    /\ ws_inbox # <<>>
    /\ LET data == Head(ws_inbox) IN
       /\ ws_inbox' = Tail(ws_inbox)
       /\ recv_log' = IF Len(recv_log) < MaxLog THEN Append(recv_log, Kind(data))
                      ELSE recv_log
       /\ ws_open' = IF Dropped(data) THEN AfterDropped(ws_open) ELSE ws_open
       /\ IF Dropped(data)
          THEN UNCHANGED <<ws_sent, reader, handled>>
          ELSE IF data.type = "ping"
          THEN /\ ws_sent' = Send(ws_sent, Pong)
               /\ UNCHANGED <<reader, handled>>
          ELSE IF data.task_type \in {"image", "video"}
          THEN /\ ws_sent' = Send(ws_sent, TaskStatusFrame(data.task_id, "processing"))
               /\ reader' = AwaitPipeline(data.task_id)
               /\ UNCHANGED handled
          ELSE /\ ws_sent' = Send(Send(ws_sent, TaskStatusFrame(data.task_id, "processing")),
                                  ErrorFrame(data.task_id, "Unknown task type"))
               /\ handled' = handled \cup {data.task_id}
               /\ UNCHANGED reader
    /\ UNCHANGED loopVars

\* What generator.generate does: it returns a result, returns None, or raises.
PipelineOutcomes == {"result", "none", "raises"}

\* GPUWorker._process_task after asyncio.to_thread has returned: the result
\* or the error is sent, and the reader goes back to its receive.
pipeline_done(outcome) ==
    /\ reader.at = "pipeline"
    /\ ws_sent' = Send(ws_sent,
                       IF outcome = "result" THEN ResultFrame(reader.task_id)
                       ELSE IF outcome = "none"
                       THEN ErrorFrame(reader.task_id, "Generation failed")
                       ELSE ErrorFrame(reader.task_id, "str(e)"))
    /\ handled' = handled \cup {reader.task_id}
    /\ reader' = AtRecv
    /\ UNCHANGED <<ws_open, ws_inbox, loopVars, recv_log>>

\* The steps of the control client leave the rest alone.
ClientStep ==
    UNCHANGED <<supVars, poolVars, splitVars, tripVars, stopVars, allocVars, ingestVars,
                dispatchVars, nodeVars, histVars>>

\* GPUWorker.__init__: no channel yet.
InitClient ==
    /\ ws_open = FALSE
    /\ ws_inbox = <<>>
    /\ ws_sent = <<>>
    /\ reader = AtRecv
    /\ handled = {}
    /\ conn = "attempt"
    /\ delay = _reconnect_delay
    /\ waits = <<>>
    /\ recv_log = <<>>

MaxNodeTasks == 3       \* the tasks a node is given have the ids 1..MaxNodeTasks

\* TaskResult(task_id=task_id, status=status)
TaskResult(task_id, status) == [task_id |-> task_id, status |-> status]

\* POST /generate/image and /generate/video: the task is put on the queue and
\* recorded as pending under a fresh id.
generate(task_id, type) ==
    /\ task_id \notin DOMAIN state.task_results
    /\ state' = [state EXCEPT
          !.task_queue = Append(@, [task_id |-> task_id, type |-> type]),
          !.task_results = Put(@, task_id, TaskResult(task_id, "pending"))]

\* result.status = "cancelled"
Cancelled(result) == [result EXCEPT !.status = "cancelled"]

\* DELETE /task/{task_id}: a pending task is marked cancelled; the call is
\* refused with 404 for an unknown id and with 400 for any other status.
node_cancel_task(task_id) ==
    IF task_id \notin DOMAIN state.task_results
    THEN UNCHANGED state
    ELSE LET result == Get(state.task_results, task_id, None) IN
         IF result.status = "pending"
         THEN state' = [state EXCEPT
                  !.task_results = Put(@, task_id, Cancelled(result))]
         ELSE UNCHANGED state

\* process_task_queue: the next task is taken from the queue, whatever its
\* recorded status, and its pipeline starts.
queue_get ==
    /\ state.current_task = None
    /\ state.task_queue # <<>>
    /\ LET task == Head(state.task_queue) IN
       state' = [state EXCEPT
          !.task_queue = Tail(@),
          !.current_task = <<task.task_id>>,
          !.task_results = Put(@, task.task_id, TaskResult(task.task_id, "processing"))]

\* process_task_queue: the pipeline of the current task has returned or
\* raised; raised is whether it raised.
pipeline_returns(raised) ==
    /\ state.current_task # None
    /\ LET task_id == state.current_task[1] IN
       state' = [state EXCEPT
          !.current_task = None,
          !.task_results =
              Put(@, task_id, TaskResult(task_id, IF raised THEN "failed" ELSE "completed")),
          !.tasks_completed = IF raised THEN @ ELSE @ + 1,
          !.tasks_failed = IF raised THEN @ + 1 ELSE @]

\* The steps of the node leave the rest alone.
NodeStep ==
    UNCHANGED <<supVars, poolVars, splitVars, tripVars, stopVars, allocVars, ingestVars,
                dispatchVars, clientVars, histVars>>

\* WorkerState.__init__
InitNode ==
    state = [task_queue |-> <<>>, task_results |-> <<>>, current_task |-> None,
             tasks_completed |-> 0, tasks_failed |-> 0]

HealthCores == 3        \* num_cores of the orchestrator whose workers are monitored

\* SocialPlatform restricted to its first two members, and the first of the
\* high-traffic platforms.
HealthPlatforms == <<"facebook", "instagram">>
HealthHighTraffic == <<"facebook">>

\* The worker keys initialize creates for them.
HealthKeys == initialize(HealthCores, HealthPlatforms, HealthHighTraffic)

\* platform.value cut at its "_": no value of SocialPlatform holds one.
Pieces(value) == <<value>>

\* f"{platform.value}_{worker_id}", as the pieces name.split("_") gives.
WorkerName(platform, worker_id) == Pieces(platform) \o <<worker_id>>

\* _health_monitor: parts = name.split("_"); parts[0] and int(parts[1])
ParseName(name) == [platform |-> name[1], worker_id |-> name[2]]

\* ProcessOrchestrator._create_worker: self.workers[name] = process
_create_worker(ws, worker_id, platform) ==
    Put(ws, WorkerName(platform, worker_id), NewProcess)

\* _health_monitor taking every worker for dead.
DeadWorkers_All(ws) == DOMAIN ws

\* _health_monitor: the names whose process.is_alive() is false.
DeadWorkers(ws) == {name \in DOMAIN ws : ~ws[name].alive}

\* _health_monitor: the dead workers restarted one after the other, in the
\* order of the dict, which is the order of the worker ids. SocialPlatform
\* raises on a value that is no member, which ends the pass.
RECURSIVE RestartAll(_, _, _)
RestartAll(ws, names, platforms) ==
    IF names = {} THEN ws
    ELSE LET name == CHOOSE n \in names :
                         \A m \in names : n[Len(n)] <= m[Len(m)]
             parts == ParseName(name)
         IN IF parts.platform \notin platforms THEN ws
            ELSE RestartAll(_create_worker(ws, parts.worker_id, parts.platform),
                            names \ {name}, platforms)

\* ProcessOrchestrator._health_monitor: one pass.
health_check ==
    /\ workers' = RestartAll(workers, DeadWorkers(workers), Range(HealthPlatforms))
    /\ UNCHANGED <<worker_queues, result_queue, active_tasks, completed_tasks,
                   stats, redis_pending, laravel_results, arrivals>>

\* The mailbox after lpush raised, were the task put there all the same.
AfterFailedWrite_Delivers(queue, task_data) == Append(queue, task_data)

\* The mailbox after lpush raised: the exception leaves submit_task before
\* worker_queues[task.platform].put(task_data).
AfterFailedWrite(queue, task_data) == queue

\* ProcessOrchestrator.submit_task when redis.lpush raises, with the call
\* recorded.
submit_task_fails(id, platform) ==
    LET task_data == to_dict(Task(id, platform, "pending", 0)) IN
    /\ id \notin submit_errors
    /\ submit_errors' = submit_errors \cup {id}
    /\ worker_queues' = [worker_queues EXCEPT ![platform] = AfterFailedWrite(@, task_data)]
    /\ UNCHANGED <<result_queue, active_tasks, completed_tasks, stats, workers,
                   redis_pending, laravel_results, arrivals>>

MaxReplies == 1         \* the answers to GET /status that are on their way

\* GET /status of the node: what get_status answers from the node's state.
get_status == [free_vram_gb |-> 8, current_task |-> state.current_task]

\* GPUPoolManager.update_worker_status up to its await: the GET is sent and
\* the node answers from its state of that moment, or the request fails.
status_request(id, reached) ==
    /\ IndexOf(pool_workers, id) # 0
    /\ Len(status_reply) < MaxReplies
    /\ status_reply' = Append(status_reply,
                              [id |-> id,
                               answer |-> IF reached THEN <<get_status>> ELSE <<>>])

\* GPUPoolManager.update_worker_status after its await: the answer the node
\* gave when it was asked is written to the registry.
status_apply ==
    /\ status_reply # <<>>
    /\ LET reply == Head(status_reply) IN
       /\ pool_workers' = update_worker_status(pool_workers, reply.id, reply.answer)
       /\ recovered' = Recovered(reply.id, reply.answer)
    /\ status_reply' = Tail(status_reply)
    /\ UNCHANGED <<hb_pending, task_queue, tasks, priority_queue, clock, subtask_reports,
                   pushed_back, state>>

\* The steps of a probe leave the rest alone.
ProbeStep ==
    UNCHANGED <<supVars, splitVars, tripVars, stopVars, allocVars, ingestVars,
                dispatchVars, clientVars, submit_errors, sent_to>>

\* The id the node gives the next task it is posted.
NextNodeTask == Cardinality(DOMAIN state.task_results) + 1

\* GPUPoolManager._task_processor with the node at the other end: a POST that
\* succeeds puts the task on the node's queue.
node_dispatch(send_ok) ==
    /\ NextNodeTask <= MaxNodeTasks
    /\ _task_processor(send_ok)
    /\ IF send_ok /\ get_available_workers # <<>>
       THEN generate(NextNodeTask, "image")
       ELSE UNCHANGED state

\* The steps of the pool and the node together leave the rest alone.
PostStep ==
    UNCHANGED <<supVars, splitVars, tripVars, stopVars, allocVars, ingestVars,
                dispatchVars, clientVars, histVars>>

\* GPUPoolManager._task_processor, with the worker a POST that succeeded went
\* to written down.
recorded_dispatch(send_ok) ==
    /\ _task_processor(send_ok)
    /\ sent_to' =
          IF send_ok /\ get_available_workers # <<>>
          THEN sent_to \cup {<<Head(task_queue).task_id,
                               PoolSortedHead(get_available_workers).id>>}
          ELSE sent_to

\* The steps of the pool that write down a POST leave the rest alone.
SentStep ==
    UNCHANGED <<supVars, splitVars, tripVars, stopVars, allocVars, ingestVars,
                dispatchVars, clientVars, nodeVars, submit_errors, probeVars>>

\* The steps of the orchestrator that write a history.
HistStep ==
    UNCHANGED <<poolVars, splitVars, tripVars, stopVars, allocVars, ingestVars,
                dispatchVars, clientVars, nodeVars, sent_to, probeVars>>

InitHist ==
    /\ submit_errors = {}
    /\ sent_to = {}
    /\ status_reply = <<>>

InitStopIdle ==
    /\ phase = "running"
    /\ exited = {}

InitRest ==
    /\ InitStopIdle
    /\ InitAllocIdle
    /\ InitIngestIdle
    /\ InitDispatchIdle
    /\ InitClient
    /\ InitNode
    /\ InitHist

Init == InitSup /\ InitPool /\ InitSplitIdle /\ InitTripIdle /\ InitRest

\* The orchestrator.
Next ==
    \/ \E id \in TaskIds, p \in Platforms : submit_task(id, p) /\ SupStep
    \/ \E id \in TaskIds, p \in Platforms : submit_task_redis_error(id, p) /\ SupStep
    \/ \E id \in TaskIds : cancel_task(id) /\ SupStep
    \/ \E p \in Platforms : \E data \in BackendRecords(p) :
          redis_queue_listener(p, data) /\ SupStep
    \/ \E w \in WorkerKeys : worker_take(w) /\ SupStep
    \/ \E w \in WorkerKeys, o \in Outcomes : worker_finish(w, o) /\ SupStep
    \/ \E w \in WorkerKeys : worker_dies(w) /\ SupStep
    \/ health_monitor /\ SupStep
    \/ result_processor(TRUE) /\ SupStep
    \/ result_processor(FALSE) /\ SupStep

Spec == Init /\ [][Next]_vars

\* The orchestrator with Redis reachable.
LiveNext ==
    \/ \E id \in TaskIds, p \in Platforms : submit_task(id, p) /\ SupStep
    \/ \E id \in TaskIds : cancel_task(id) /\ SupStep
    \/ \E p \in Platforms : \E data \in BackendRecords(p) :
          redis_queue_listener(p, data) /\ SupStep
    \/ \E w \in WorkerKeys : worker_take(w) /\ SupStep
    \/ \E w \in WorkerKeys, o \in Outcomes : worker_finish(w, o) /\ SupStep
    \/ \E w \in WorkerKeys : worker_dies(w) /\ SupStep
    \/ health_monitor /\ SupStep
    \/ result_processor(TRUE) /\ SupStep

\* The loops of start() run forever on one event loop and every live worker
\* process keeps running: each of their steps, once possible, is taken.
LiveSpec ==
    /\ Init
    /\ [][LiveNext]_vars
    /\ WF_vars(health_monitor /\ SupStep)
    /\ WF_vars(result_processor(TRUE) /\ SupStep)
    /\ \A w \in WorkerKeys : WF_vars(worker_take(w) /\ SupStep)
    /\ \A w \in WorkerKeys : WF_vars(\E o \in Outcomes : worker_finish(w, o) /\ SupStep)

\* The distributor and the pool. The heartbeat loop's probes are calls of
\* update_worker_status at any time and in any order; time does not pass. The
\* workers have the same compute power.
PoolNext ==
    \/ \E id \in PoolWorkerIds : register_worker(id, 1) /\ PoolStep
    \/ \E id \in PoolWorkerIds : unregister_worker(id) /\ PoolStep
    \/ \E id \in PoolWorkerIds : \E answer \in ProbeAnswers(id) :
          probe(id, answer) /\ PoolStep
    \/ \E id \in JobIds, pr \in Priorities, m \in Modes, b \in 1..MaxBatch :
          submit(id, pr, m, b) /\ PoolStep
    \/ _distribution_loop /\ PoolStep
    \/ \E id \in JobIds : distributor_cancel_task(id) /\ PoolStep
    \/ \E id \in JobIds \cup SubtaskIds, o \in {"result", "error"} :
          update_task_result(id, o) /\ PoolStep
    \/ _task_processor(TRUE) /\ PoolStep
    \/ _task_processor(FALSE) /\ PoolStep

PoolSpec == Init /\ [][PoolNext]_vars

\* The distributor's queue: several jobs are submitted and forwarded, none is
\* cancelled or reported, and the pool's queue is not drained.
OrderNext ==
    \/ \E id \in PoolWorkerIds, cp \in Powers : register_worker(id, cp) /\ PoolStep
    \/ \E id \in PoolWorkerIds : \E answer \in ProbeAnswers(id) :
          probe(id, answer) /\ PoolStep
    \/ \E id \in OrderJobIds, pr \in Priorities :
          submit(id, pr, "parallel", 1) /\ PoolStep
    \/ _distribution_loop /\ PoolStep

OrderSpec == Init /\ [][OrderNext]_vars

\* The pool manager alone, with its heartbeat loop and with tasks submitted to
\* it directly.
HeartbeatNext ==
    \/ \E id \in PoolWorkerIds, cp \in Powers : register_worker(id, cp) /\ PoolStep
    \/ \E id \in PoolWorkerIds : unregister_worker(id) /\ PoolStep
    \/ heartbeat_round /\ PoolStep
    \/ \E answer \in ProbeAnswers(IF hb_pending = <<>> THEN 0 ELSE Head(hb_pending)) :
          heartbeat_probe(answer) /\ PoolStep
    \/ \E id \in JobIds, b \in 1..MaxBatch : pool_submit_task(id, b) /\ PoolStep
    \/ _task_processor(TRUE) /\ PoolStep
    \/ _task_processor(FALSE) /\ PoolStep

HeartbeatSpec == Init /\ [][HeartbeatNext]_vars

\* The distributor's callbacks: every job is submitted with a callback, and
\* the workers report the jobs and the subtasks at any time, more than once.
CallbackNext ==
    \/ \E id \in PoolWorkerIds : register_worker(id, 1) /\ PoolStep
    \/ \E id \in PoolWorkerIds : \E answer \in ProbeAnswers(id) :
          probe(id, answer) /\ PoolStep
    \/ \E id \in JobIds, pr \in Priorities, m \in Modes, b \in 1..MaxBatch :
          submit_request(id, pr, m, b, FALSE, TRUE) /\ PoolStep
    \/ _distribution_loop /\ PoolStep
    \/ \E id \in JobIds \cup SubtaskIds, o \in {"result", "error"} :
          update_task_result(id, o) /\ PoolStep

CallbackSpec == Init /\ [][CallbackNext]_vars

\* cancel_task of the orchestrator and of the distributor, called at any time
\* for any id, while tasks are processed and jobs wait in the priority queue.
CancelNext ==
    \/ \E id \in TaskIds, p \in Platforms : submit_task(id, p) /\ SupStep
    \/ \E id \in TaskIds : cancel_task(id) /\ SupStep
    \/ \E id \in TaskIds : cancel_task_refused(id) /\ SupStep
    \/ \E w \in WorkerKeys : worker_take(w) /\ SupStep
    \/ \E w \in WorkerKeys, o \in Outcomes : worker_finish(w, o) /\ SupStep
    \/ result_processor(TRUE) /\ SupStep
    \/ \E id \in OrderJobIds, pr \in Priorities :
          submit(id, pr, "parallel", 1) /\ PoolStep
    \/ _distribution_loop /\ PoolStep
    \/ \E id \in OrderJobIds : distributor_cancel_task(id) /\ PoolStep
    \/ \E id \in OrderJobIds : distributor_cancel_refused(id) /\ PoolStep

CancelSpec == Init /\ [][CancelNext]_vars

\* The batch splits alone, for every batch and every list of workers.
SplitInit ==
    /\ InitSup
    /\ InitPool
    /\ split_in \in SplitInputs
    /\ split_out = [by |-> "none", subtasks |-> <<>>]
    /\ InitTripIdle
    /\ InitRest

SplitNext ==
    \/ distributor_split
    \/ pool_split

SplitSpec == SplitInit /\ [][SplitNext]_vars

\* The distributor with jobs submitted in mode auto, with and without
\* requires_large_vram in the request.
AutoNext ==
    \/ \E id \in PoolWorkerIds : register_worker(id, 1) /\ PoolStep
    \/ \E id \in PoolWorkerIds : \E answer \in ProbeAnswers(id) :
          probe(id, answer) /\ PoolStep
    \/ \E id \in JobIds, pr \in Priorities, b \in 1..MaxBatch, large \in BOOLEAN :
          submit_request(id, pr, "auto", b, large, FALSE) /\ PoolStep
    \/ _distribution_loop /\ PoolStep

AutoSpec == Init /\ [][AutoNext]_vars

MaxWeight == 2      \* a compute_power of the data model is 0..MaxWeight

\* A combined job's batch size and the compute powers of the available
\* workers, a power of 0 included. With every power 0 the split divides by
\* zero and the job is not distributed: these lists are left out.
WeightInputs ==
    {in \in [batch_size : 2..MaxSplitBatch,
             powers : UNION {[1..n -> 0..MaxWeight] : n \in 1..MaxSplitWorkers}] :
        Sum(in.powers) > 0}

\* The batch splits alone, for every compute power the data model allows.
WeightInit ==
    /\ InitSup
    /\ InitPool
    /\ split_in \in WeightInputs
    /\ split_out = [by |-> "none", subtasks |-> <<>>]
    /\ InitTripIdle
    /\ InitRest

WeightNext ==
    \/ distributor_split
    \/ pool_split

WeightSpec == WeightInit /\ [][WeightNext]_vars

\* The orchestrator until stop() has run: tasks are submitted and processed,
\* stop() begins at any time, and the coroutines run again once it is over.
\* A coroutine that was waiting for Redis when stop() began goes on after it,
\* with Redis closed: its call may succeed or raise.
ShutdownNext ==
    \/ \E id \in TaskIds, p \in Platforms :
          LoopFree /\ submit_task(id, p) /\ SupStep
    \/ \E w \in WorkerKeys : worker_take(w) /\ SupStep
    \/ \E w \in WorkerKeys, o \in Outcomes : worker_finish(w, o) /\ SupStep
    \/ LoopFree /\ result_processor(TRUE) /\ SupStep
    \/ phase = "stopped" /\ result_processor(FALSE) /\ SupStep
    \/ stop_begin /\ StopStep
    \/ \E w \in WorkerKeys : worker_take_sentinel(w) /\ StopStep
    \/ \E w \in WorkerKeys : join_timeout(w) /\ StopStep
    \/ stop_end /\ StopStep

ShutdownSpec == Init /\ [][ShutdownNext]_vars

\* initialize and stop alone, for every setting.
AllocInit ==
    /\ InitSup
    /\ InitPool
    /\ InitSplitIdle
    /\ InitTripIdle
    /\ InitStopIdle
    /\ InitIngestIdle
    /\ InitDispatchIdle
    /\ InitClient
    /\ InitNode
    /\ InitHist
    /\ alloc_in \in AllocInputs
    /\ alloc_out = [by |-> "none", workers |-> {}, sentinels |-> <<>>]

AllocNext ==
    \/ alloc_initialize
    \/ alloc_stop

AllocSpec == AllocInit /\ [][AllocNext]_vars

\* The pool manager with tasks of every mode submitted to it and every POST
\* to a node succeeding or failing.
DispatchNext ==
    \/ \E id \in PoolWorkerIds, cp \in Powers : register_worker(id, cp) /\ PoolStep
    \/ \E id \in PoolWorkerIds : \E answer \in ProbeAnswers(id) :
          probe(id, answer) /\ PoolStep
    \/ \E id \in JobIds, m \in PoolModes, b \in 1..MaxBatch :
          pool_submit_mode(id, m, b) /\ DispatchStep
    \/ \E ok \in SendOutcomes : pool_task_processor(ok) /\ DispatchStep

DispatchSpec == Init /\ [][DispatchNext]_vars

\* The control client of a worker node, with the master sending pings and
\* tasks and the channel closing at any time.
ClientNext ==
    \/ connect /\ ClientStep
    \/ loop_ends /\ ClientStep
    \/ channel_close /\ ClientStep
    \/ master_send(Ping) /\ ClientStep
    \/ \E id \in 1..MaxClientTasks, type \in {"image", "video", "audio"} :
          master_send(TaskFrame(id, type)) /\ ClientStep
    \/ reader_recv /\ ClientStep
    \/ \E o \in PipelineOutcomes : pipeline_done(o) /\ ClientStep

ClientSpec == Init /\ [][ClientNext]_vars

\* The connection loop of the control client, with connection attempts that
\* fail and connections that are lost.
ReconnectNext ==
    \/ connect /\ ClientStep
    \/ connect_fails /\ ClientStep
    \/ loop_ends /\ ClientStep
    \/ channel_close /\ ClientStep
    \/ master_send(Ping) /\ ClientStep
    \/ reader_recv /\ ClientStep

ReconnectSpec == Init /\ [][ReconnectNext]_vars

\* The reader of the control client, with the master sending frames of
\* every kind.
FrameNext ==
    \/ connect /\ ClientStep
    \/ loop_ends /\ ClientStep
    \/ channel_close /\ ClientStep
    \/ \E frame \in {Ping, Garbled, Unknown, UnloadFrame(TRUE), UnloadFrame(FALSE)} :
          master_send(frame) /\ ClientStep
    \/ \E id \in 1..MaxClientTasks : master_send(TaskFrame(id, "image")) /\ ClientStep
    \/ reader_recv /\ ClientStep
    \/ \E o \in PipelineOutcomes : pipeline_done(o) /\ ClientStep

FrameSpec == Init /\ [][FrameNext]_vars

\* The API server of a worker node with its queue processor.
NodeNext ==
    \/ \E id \in 1..MaxNodeTasks, type \in {"image", "video"} :
          generate(id, type) /\ NodeStep
    \/ \E id \in 1..MaxNodeTasks : node_cancel_task(id) /\ NodeStep
    \/ queue_get /\ NodeStep
    \/ \E raised \in BOOLEAN : pipeline_returns(raised) /\ NodeStep

NodeSpec == Init /\ [][NodeNext]_vars

\* The pool with one worker node at the other end: the probe is split at its
\* await, and the node queues and runs what it is posted.
RaceNext ==
    \/ register_worker(1, 1) /\ PoolStep
    \/ \E reached \in BOOLEAN :
          status_request(1, reached) /\ UNCHANGED <<poolVars, state>> /\ ProbeStep
    \/ status_apply /\ ProbeStep
    \/ \E id \in OrderJobIds : pool_submit_task(id, 1) /\ PoolStep
    \/ \E send_ok \in BOOLEAN : node_dispatch(send_ok) /\ PostStep
    \/ queue_get /\ NodeStep
    \/ \E raised \in BOOLEAN : pipeline_returns(raised) /\ NodeStep

RaceSpec == Init /\ [][RaceNext]_vars

\* The distributor and the pool's task processor over parallel jobs, with the
\* worker of every POST that succeeded written down.
AssignNext ==
    \/ \E id \in PoolWorkerIds, cp \in Powers : register_worker(id, cp) /\ PoolStep
    \/ \E id \in PoolWorkerIds : \E answer \in ProbeAnswers(id) :
          probe(id, answer) /\ PoolStep
    \/ \E id \in OrderJobIds : submit(id, NORMAL, "parallel", 1) /\ PoolStep
    \/ _distribution_loop /\ PoolStep
    \/ \E send_ok \in BOOLEAN : recorded_dispatch(send_ok) /\ SentStep

AssignSpec == Init /\ [][AssignNext]_vars

\* The orchestrator over two platforms and three workers, with workers that
\* die and the health monitor.
HealthInit ==
    /\ worker_queues = [p \in Range(HealthPlatforms) |-> <<>>]
    /\ result_queue = <<>>
    /\ active_tasks = <<>>
    /\ completed_tasks = <<>>
    /\ stats = [tasks_processed |-> 0, tasks_failed |-> 0, tasks_queued |-> 0]
    /\ workers = [w \in HealthKeys |-> NewProcess]
    /\ redis_pending = [p \in Range(HealthPlatforms) |-> <<>>]
    /\ laravel_results = <<>>
    /\ arrivals = <<>>
    /\ InitPool
    /\ InitSplitIdle
    /\ InitTripIdle
    /\ InitRest

HealthNext ==
    \/ \E id \in TaskIds, p \in Range(HealthPlatforms) : submit_task(id, p) /\ SupStep
    \/ \E w \in HealthKeys : worker_take(w) /\ SupStep
    \/ \E w \in HealthKeys, o \in Outcomes : worker_finish(w, o) /\ SupStep
    \/ \E w \in HealthKeys : worker_dies(w) /\ SupStep
    \/ health_check /\ SupStep
    \/ result_processor(TRUE) /\ SupStep

HealthSpec == HealthInit /\ [][HealthNext]_vars

\* The orchestrator with submissions that fail at the write to Redis.
SubmitNext ==
    \/ \E id \in TaskIds, p \in Platforms :
          submit_task(id, p) /\ UNCHANGED submit_errors /\ HistStep
    \/ \E id \in TaskIds, p \in Platforms : submit_task_fails(id, p) /\ HistStep
    \/ \E w \in WorkerKeys : worker_take(w) /\ UNCHANGED submit_errors /\ HistStep
    \/ \E w \in WorkerKeys, o \in Outcomes :
          worker_finish(w, o) /\ UNCHANGED submit_errors /\ HistStep
    \/ result_processor(TRUE) /\ UNCHANGED submit_errors /\ HistStep

SubmitSpec == Init /\ [][SubmitNext]_vars

\* The listener over two platforms, with the backend pushing well-formed and
\* malformed records at any time. The listener's loop runs as long as the
\* supervisor does: its next rpop is always taken.
IngestInit ==
    /\ worker_queues = [p \in Range(IngestPlatforms) |-> <<>>]
    /\ result_queue = <<>>
    /\ active_tasks = <<>>
    /\ completed_tasks = <<>>
    /\ stats = [tasks_processed |-> 0, tasks_failed |-> 0, tasks_queued |-> 0]
    /\ workers = <<>>
    /\ redis_pending = [p \in Range(IngestPlatforms) |-> <<>>]
    /\ laravel_results = <<>>
    /\ arrivals = <<>>
    /\ InitPool
    /\ InitSplitIdle
    /\ InitTripIdle
    /\ InitStopIdle
    /\ InitAllocIdle
    /\ InitDispatchIdle
    /\ InitClient
    /\ InitNode
    /\ InitHist
    /\ inbound = [p \in Range(IngestPlatforms) |-> <<>>]
    /\ poll_at = 1

IngestNext ==
    \/ \E p \in Range(IngestPlatforms) : backend_push(p, Malformed) /\ IngestStep
    \/ \E p \in Range(IngestPlatforms), id \in 1..MaxIngested :
          backend_push(p, to_dict(Task(id, p, "pending", 0))) /\ IngestStep
    \/ listener_rpop /\ IngestStep

IngestSpec ==
    /\ IngestInit
    /\ [][IngestNext]_vars
    /\ WF_vars(listener_rpop /\ IngestStep)

\* The two conversions of Task alone, for every Task.
TripInit ==
    /\ InitSup
    /\ InitPool
    /\ InitSplitIdle
    /\ trip_in \in TaskObjects
    /\ trip_data = <<>>
    /\ trip_out = <<>>
    /\ InitRest

TripNext ==
    \/ trip_to_dict
    \/ trip_from_dict

TripSpec == TripInit /\ [][TripNext]_vars

-----------------------------------------------------------------------------
\* The orchestrator's claims.

\* laravel:results holds a record of this task with this status.
Published(id, status) ==
    \E i \in DOMAIN laravel_results :
        laravel_results[i].id = id /\ laravel_results[i].status = status

\* C1: every task that reaches a terminal status, through the result processor
\* or through cancel_task, eventually has a record with its id and that status
\* on laravel:results.
C1_TerminalIsPublished ==
    \A id \in TaskIds : \A s \in TerminalStatus :
        (id \in DOMAIN completed_tasks /\ completed_tasks[id].status = s)
            ~> Published(id, s)

\* The records submit_task returned for.
submitted == {arrivals[i].data : i \in {n \in DOMAIN arrivals : arrivals[n].op = "submit_task"}}

\* Task ids are unique: no id was submitted or pushed by the backend twice.
UniqueIds ==
    \A i, j \in DOMAIN arrivals : i # j => arrivals[i].data.id # arrivals[j].data.id

\* C2: the record of every submit_task call that returned is on
\* tasks:<platform>:pending of its platform, whatever the orchestrator did since.
C2_SubmittedStaysPending ==
    \A task_data \in submitted :
        \E i \in DOMAIN redis_pending[task_data.platform] :
            redis_pending[task_data.platform][i] = task_data

\* C2 witness: two submitted tasks have both left the live-task map, one through
\* the result processor, and their records are still on the pending list.
C2_Witness ==
    /\ Cardinality(submitted) = 2
    /\ \A task_data \in submitted :
           /\ task_data.id \in DOMAIN completed_tasks
           /\ task_data \in Range(redis_pending[task_data.platform])
    /\ laravel_results # <<>>

tasks_cancelled ==
    Cardinality({id \in DOMAIN completed_tasks :
                    completed_tasks[id].status = "cancelled"})

\* C3: tasks_processed + tasks_failed + the number of cancelled tasks + the
\* size of the live-task map is the number of tasks submitted (tasks_queued),
\* for tasks with unique ids.
C3_CountersBalance ==
    UniqueIds =>
    stats.tasks_processed + stats.tasks_failed + tasks_cancelled
        + Cardinality(DOMAIN active_tasks) = stats.tasks_queued

\* A process died while it held this task.
DiedHolding(id) ==
    \E w \in WorkerKeys :
        /\ ~workers[w].alive
        /\ \E t \in Range(workers[w].current_task) : t.id = id

\* C5: a task whose worker process died while processing it is delivered again
\* and a terminal record of it eventually appears on laravel:results; at the
\* least it does not stay in the live-task map forever.
C5_DeadWorkerTaskCompletes ==
    \A id \in TaskIds :
        DiedHolding(id) ~>
            ((\E s \in TerminalStatus : Published(id, s)) \/ id \notin DOMAIN active_tasks)

\* C6: a task is published as failed only once its retries are exhausted: a
\* failed report for a task with retries < max_retries re-enqueues it instead.
C6_FailedOnlyAfterRetries ==
    \A i \in DOMAIN laravel_results :
        laravel_results[i].status = "failed"
            => laravel_results[i].retries >= max_retries

-----------------------------------------------------------------------------
\* The pool's claims.

\* C4: the subtasks of a batch split have pairwise distinct part indices and
\* batch sizes that sum to the batch size of the job, and a single available
\* worker receives the whole batch.
C4_SplitSumsToBatch ==
    split_out.by # "none" =>
        LET subtasks == split_out.subtasks IN
        /\ \A i, j \in DOMAIN subtasks : i # j => subtasks[i].part # subtasks[j].part
        /\ Sum([i \in DOMAIN subtasks |-> subtasks[i].batch_size]) = split_in.batch_size
        /\ Len(split_in.powers) = 1 =>
               /\ Len(subtasks) = 1
               /\ subtasks[1].batch_size = split_in.batch_size

\* This step hands the job to the pool.
Forwards(id) ==
    /\ tasks[id].status # "distributed"
    /\ tasks'[id].status = "distributed"

\* Job a is to be forwarded before job b: its priority is higher, or it is the
\* same and a was submitted first.
Before(a, b) ==
    \/ tasks[a].priority > tasks[b].priority
    \/ tasks[a].priority = tasks[b].priority /\ tasks[a].created_at < tasks[b].created_at

\* C7: the distributor forwards jobs in order of descending priority and, among
\* jobs of equal priority, in the order they were submitted: no job waiting in
\* the queue is to be forwarded before the job a step forwards.
C7_ForwardsInOrder ==
    [][\A id \in DOMAIN tasks :
          Forwards(id) =>
              \A i \in DOMAIN priority_queue : ~Before(priority_queue[i][2], id)]_vars

\* C8: a registered worker that no probe has reached during 3 heartbeat
\* periods is offline, so it is not available.
C8_SilentWorkerIsOffline ==
    \A i \in DOMAIN pool_workers :
        pool_workers[i].since_heartbeat >= 3 =>
            /\ pool_workers[i].status = "offline"
            /\ ~is_available(pool_workers[i])

\* C8 witness: a worker that answered a probe, and then none during 3
\* heartbeat periods, is offline.
C8_Witness ==
    \E i \in DOMAIN pool_workers :
        /\ pool_workers[i].since_heartbeat = 3
        /\ pool_workers[i].free_vram_gb # 0
        /\ pool_workers[i].status = "offline"

\* The status of the registered worker with this id after the step.
StatusAfter(id) == pool_workers'[IndexOf(pool_workers', id)].status

C10_ParentAggregates ==
    \A j \in DOMAIN tasks :
        ( /\ Len(tasks[j].subtasks) >= 2
          /\ Range(tasks[j].subtasks) \subseteq DOMAIN subtask_reports )
        => tasks[j].status =
              IF \A st \in Range(tasks[j].subtasks) : subtask_reports[st] = "result"
              THEN "completed"
              ELSE "failed"
\* Every subtask of this split job was reported.
AllSubtasksReported(j) ==
    /\ tasks[j].subtasks # <<>>
    /\ Range(tasks[j].subtasks) \subseteq DOMAIN subtask_reports

\* C11: the callback of a job is invoked exactly once, when the job reaches a
\* terminal status: never twice, whatever is reported again or late, and once
\* for a split job when the last of its subtasks is reported.
C11_CallbackOnce ==
    \A j \in DOMAIN tasks :
        tasks[j].callback =>
            /\ tasks[j].callback_calls <= 1
            /\ tasks[j].status \in {"completed", "failed"} => tasks[j].callback_calls = 1
            /\ AllSubtasksReported(j) => tasks[j].callback_calls = 1

\* C12: a job whose status is completed, failed or cancelled keeps that status
\* in every later step, whichever operation takes it.
C12_TerminalIsFinal ==
    [][\A j \in DOMAIN tasks :
          tasks[j].status \in TerminalStatus => tasks'[j].status = tasks[j].status]_vars

\* The distributor forwarded this job to the pool, whole or in parts.
WasForwarded(j) == tasks[j].assigned_workers # <<>> \/ tasks[j].subtasks # <<>>

\* C13: a job that cancel_task cancelled while it was pending or queued is never
\* forwarded to the pool or to a worker.
C13_CancelledNeverForwarded ==
    \A j \in DOMAIN tasks : tasks[j].was_cancelled => ~WasForwarded(j)

\* C14: cancel_task called twice in succession for one id, by the orchestrator
\* for a live task and by the distributor for a pending or queued job: the first
\* call returns True, the second returns False and changes nothing.
C14_SecondCancelRefused ==
    /\ \A id \in DOMAIN active_tasks :
          LET first == CancelTask(active_tasks, completed_tasks, id)
              second == CancelTask(first.active_tasks, first.completed_tasks, id)
          IN /\ first.returned
             /\ ~second.returned
             /\ second.active_tasks = first.active_tasks
             /\ second.completed_tasks = first.completed_tasks
    /\ \A j \in DOMAIN tasks :
          tasks[j].status \in {"pending", "queued"} =>
              LET first == DistributorCancel(tasks, j)
                  second == DistributorCancel(first.tasks, j)
              IN /\ first.returned
                 /\ ~second.returned
                 /\ second.tasks = first.tasks

\* C14 witness: the orchestrator cancelled a live task while another is live,
\* and the distributor cancelled a job while another waits in its queue.
C14_Witness ==
    /\ \E id \in DOMAIN completed_tasks :
          completed_tasks[id].status = "cancelled" /\ id \notin DOMAIN active_tasks
    /\ active_tasks # <<>>
    /\ \E j \in DOMAIN tasks : tasks[j].was_cancelled /\ tasks[j].status = "cancelled"
    /\ \E j \in DOMAIN tasks : tasks[j].status = "queued"

\* The registry holds one entry for an id at most.
OneEntryPerId(ws) == \A i, j \in DOMAIN ws : ws[i].id = ws[j].id => i = j

\* C15: register_worker for an id that is registered leaves the size of the
\* registry unchanged and replaces the record; the registry never holds two
\* entries for one id; unregister_worker of an id that is not registered
\* returns False and changes nothing.
C15_RegistryKeyedById ==
    /\ OneEntryPerId(pool_workers)
    /\ \A id \in PoolWorkerIds, cp \in Powers :
          LET after == SetWorker(pool_workers, WorkerNode(id, cp)) IN
          /\ IndexOf(pool_workers, id) # 0 => Len(after) = Len(pool_workers)
          /\ after[IndexOf(after, id)] = WorkerNode(id, cp)
          /\ OneEntryPerId(after)
    /\ \A id \in PoolWorkerIds :
          IndexOf(pool_workers, id) = 0 =>
              /\ ~UnregisterWorker(pool_workers, id).returned
              /\ UnregisterWorker(pool_workers, id).workers = pool_workers

\* C15 witness: two workers were registered and a heartbeat round has passed;
\* the first was registered again since, and its fresh record took the place of
\* the old one.
C15_Witness ==
    /\ Len(pool_workers) = 2
    /\ pool_workers[2].since_heartbeat >= 1
    /\ \E cp \in Powers : pool_workers[1] = WorkerNode(pool_workers[1].id, cp)

\* C16: Task.from_dict(task.to_dict()) equals the task, field by field, for
\* every task: every kind, platform and status, any retries, result and error
\* present or absent.
C16_RoundTrip == trip_out # <<>> => trip_out[1] = trip_in

\* C16 witness: a failed task with an error, a result and a created_at that
\* has microseconds went through to_dict and from_dict.
C16_Witness ==
    /\ trip_out # <<>>
    /\ Value(trip_in.status) = "failed"
    /\ trip_in.error # None
    /\ trip_in.result # None
    /\ trip_in.created_at[2] # 0
    /\ trip_data[1].status = "failed"

\* This step dispatches job j on the parallel path.
DispatchedParallel(j) ==
    /\ tasks[j].mode # "combined"
    /\ tasks[j].status # "distributed"
    /\ tasks'[j].status = "distributed"

\* C17: a job dispatched in parallel mode has exactly one worker id in
\* assigned_workers from then on, and that worker was available when the job
\* was dispatched.
C17_OneAvailableWorker ==
    [][\A j \in DOMAIN tasks :
          /\ DispatchedParallel(j) =>
                /\ Len(tasks'[j].assigned_workers) = 1
                /\ \E i \in DOMAIN pool_workers :
                      /\ pool_workers[i].id = tasks'[j].assigned_workers[1]
                      /\ is_available(pool_workers[i])
          /\ tasks[j].mode # "combined" /\ ~DispatchedParallel(j) =>
                tasks'[j].assigned_workers = tasks[j].assigned_workers]_vars

\* C17 witness: a parallel job was dispatched to one worker, and a later job
\* of the pool's own has made that worker busy since.
C17_Witness ==
    \E j \in DOMAIN tasks :
        /\ tasks[j].mode = "parallel"
        /\ tasks[j].status \in {"distributed", "completed", "failed"}
        /\ Len(tasks[j].assigned_workers) = 1
        /\ \E i \in DOMAIN pool_workers :
              /\ pool_workers[i].id = tasks[j].assigned_workers[1]
              /\ ~is_available(pool_workers[i])

\* C18: a combined job with a batch size above 1 that is distributed while two
\* workers or more are available is split into two subtasks or more, whatever
\* the compute powers of the workers, 0 included.
C18_SplitOverTwo ==
    (/\ split_out.by = "_split_batch_task"
     /\ split_in.batch_size > 1
     /\ Len(split_in.powers) >= 2)
        => Len(split_out.subtasks) >= 2

\* C19: a job submitted in mode auto is distributed as a combined job, split
\* when its batch size is above 1, when its request has requires_large_vram
\* set, and as a parallel job, whole and to one worker, when it has not and
\* its estimated VRAM fits a worker (every worker that is online reports
\* FreeVram, which the estimate of an image job fits).
C19_AutoChoosesPath ==
    \A j \in DOMAIN tasks :
        (tasks[j].mode = "auto" /\ tasks[j].status = "distributed") =>
            IF tasks[j].requires_large_vram
            THEN tasks[j].batch_size > 1 => tasks[j].subtasks # <<>>
            ELSE Len(tasks[j].assigned_workers) = 1 /\ tasks[j].subtasks = <<>>

\* max(1, floor(B * power_i / sum)) for the worker at index i, counted from 0.
Share(i) ==
    Max(1, (split_in.batch_size * split_in.powers[i + 1]) \div Sum(split_in.powers))

\* What is left of the batch once the workers before index i have their shares.
RECURSIVE LeftBefore(_)
LeftBefore(i) == IF i = 0 THEN split_in.batch_size ELSE LeftBefore(i - 1) - Share(i - 1)

\* The batch sizes of the subtasks with part index i.
BatchOfPart(i) ==
    {split_out.subtasks[n].batch_size :
        n \in {m \in DOMAIN split_out.subtasks : split_out.subtasks[m].part = i}}

\* C20 as stated: of the workers w_0..w_(k-1) of a split, every worker i < k-1
\* gets the subtask <parent>_part<i> with batch max(1, floor(B * power_i / sum))
\* and the last gets the remainder; every subtask emitted has a batch of 1 or
\* more.
C20_ShareFormula ==
    split_out.by = "_split_batch_task" =>
        LET k == Len(split_in.powers) IN
        /\ \A i \in 0..(k - 2) : BatchOfPart(i) = {Share(i)}
        /\ BatchOfPart(k - 1) = IF LeftBefore(k - 1) >= 1 THEN {LeftBefore(k - 1)} ELSE {}
        /\ \A n \in DOMAIN split_out.subtasks : split_out.subtasks[n].batch_size >= 1

\* C20, amended: the workers are walked in order while part of the batch is
\* left. A worker i < k-1 reached with something left gets the subtask
\* <parent>_part<i> with batch max(1, floor(B * power_i / sum)), the last worker
\* reached with something left gets what is left, and a worker reached with
\* nothing left gets no subtask; the subtasks are emitted in the order of the
\* workers, each with a batch of 1 or more; for B = 6 and the powers 2, 1, 1
\* the batches are 3, 1, 2.
C20_ShareWhileLeft ==
    split_out.by = "_split_batch_task" =>
        LET k == Len(split_in.powers)
            subtasks == split_out.subtasks
        IN
        /\ \A i \in 0..(k - 1) :
              BatchOfPart(i) =
                  IF LeftBefore(i) <= 0 THEN {}
                  ELSE IF i < k - 1 THEN {Share(i)}
                  ELSE {LeftBefore(i)}
        /\ \A n \in DOMAIN subtasks :
              /\ subtasks[n].batch_size >= 1
              /\ subtasks[n].part \in 0..(k - 1)
        /\ \A m, n \in DOMAIN subtasks : m < n => subtasks[m].part < subtasks[n].part
        /\ (split_in.batch_size = 6 /\ split_in.powers = <<2, 1, 1>>) =>
              [n \in DOMAIN subtasks |-> subtasks[n].batch_size] = <<3, 1, 2>>

\* C20 witness: a batch of 6 was split over workers of powers 2, 1, 1.
C20_Witness ==
    /\ split_in = [batch_size |-> 6, powers |-> <<2, 1, 1>>]
    /\ split_out.by = "_split_batch_task"
    /\ Len(split_out.subtasks) = 3

-----------------------------------------------------------------------------
\* The claims on the shutdown, the ingestion and the allocation of workers.

\* The reports of this worker on the result queue.
ReportsOf(queue, w) == SelectSeq(queue, LAMBDA r : r.worker_id = w[2])

\* C21: a worker that took the shutdown sentinel takes nothing more from its
\* mailbox and puts no report on the result queue: the task records behind the
\* sentinel are left alone by it.
C21_SentinelEndsWorker ==
    [][\A w \in exited :
          /\ workers'[w] = workers[w]
          /\ ~workers[w].alive
          /\ Len(ReportsOf(result_queue', w)) <= Len(ReportsOf(result_queue, w))]_vars

\* C21 witness: a worker took the sentinel and a task record put on its
\* mailbox since is still there.
C21_Witness ==
    \E w \in exited :
        \E i \in DOMAIN worker_queues[w[1]] : worker_queues[w[1]][i] # Sentinel

\* The workers initialize created for this platform.
WorkersOf(p) == {w \in alloc_out.workers : w[1] = p}

\* C22: stop() puts on each platform's mailbox a sentinel for every worker
\* slot of that platform, so that each of its workers can take one, for every
\* num_cores and max_workers_per_platform.
C22_SentinelPerWorker ==
    alloc_out.by = "stop" =>
        \A p \in Range(AllPlatforms) :
            alloc_out.sentinels[p] >= Cardinality(WorkersOf(p))

\* The extra slot of this platform when `remainder` slots are left over: one
\* for each of the first `remainder` platforms of the high-traffic list.
ExtraSlot(p, remainder) ==
    IF \E j \in DOMAIN HighTraffic : HighTraffic[j] = p /\ j <= remainder THEN 1 ELSE 0

\* C28 as stated: for N slots and the 9 platforms, every platform gets
\* floor(N/9) workers, and the N mod 9 slots left over go one each to facebook,
\* instagram, tiktok and line in that order; no platform gets another number.
C28_FloorAllocation ==
    alloc_out.by # "none" =>
        LET N == alloc_in.num_cores
            P == Len(AllPlatforms)
        IN \A p \in Range(AllPlatforms) :
               Cardinality(WorkersOf(p)) = (N \div P) + ExtraSlot(p, N % P)

\* C28, amended: every platform gets max(1, floor(N/9)) workers, one at least
\* even when N < 9, and the N - 9 * max(1, floor(N/9)) slots left over, none
\* when N < 9, go one each to facebook, instagram, tiktok and line in that
\* order; no platform gets another number, and the worker ids are 0, 1, 2, ...
\* without a gap.
C28_AtLeastOneEach ==
    alloc_out.by # "none" =>
        LET N == alloc_in.num_cores
            P == Len(AllPlatforms)
            base == IF N \div P >= 1 THEN N \div P ELSE 1
            left == N - P * base
        IN /\ \A p \in Range(AllPlatforms) :
                 Cardinality(WorkersOf(p)) = base + ExtraSlot(p, left)
           /\ {w[1] : w \in alloc_out.workers} = Range(AllPlatforms)
           /\ {w[2] : w \in alloc_out.workers} =
                  0..(Cardinality(alloc_out.workers) - 1)

\* C28 witness: with 4 slots, fewer than the platforms, initialize created
\* 9 workers.
C28_Witness ==
    /\ alloc_in.num_cores = 4
    /\ alloc_out.by = "initialize"
    /\ Cardinality(alloc_out.workers) = 9

\* C23: once stop() has closed Redis no report is left on the result queue:
\* every report that was on it when stop() began, or that a worker put before
\* it ended, has been taken, applied and published.
C23_ResultsFlushed == phase = "stopped" => result_queue = <<>>

\* A well-formed record waits on this platform's inbound list.
Waiting(p, id) == \E i \in DOMAIN inbound[p] : inbound[p][i] # Malformed /\ inbound[p][i].id = id

\* The record with this id is on this platform's mailbox.
Forwarded(p, id) == \E i \in DOMAIN worker_queues[p] : worker_queues[p][i].id = id

\* C24: a record waiting on the inbound list of any platform is eventually
\* popped and put on the mailbox of that platform, whatever arrives on the
\* lists of the other platforms, malformed records included.
C24_NoPlatformStarves ==
    \A p \in Range(IngestPlatforms) : \A id \in 1..MaxIngested :
        Waiting(p, id) ~> Forwarded(p, id)

\* The workers _select_best_worker sorts for a job of this type: the
\* available ones with the VRAM the job needs, or all the available ones.
Suitable(type) ==
    LET available == get_available_workers
        Fits(w) == w.free_vram_gb >= _estimate_vram_requirement(type)
        fitting == Filter(available, Fits)
    IN IF fitting = <<>> THEN available ELSE fitting

\* C29: the worker selected for a job is one of the suitable workers, none of
\* them is greater by (compute_power, free_vram), and among those equal to it
\* on both keys it has the lowest id, whatever the order of registration.
C29_LowestIdAmongEqual ==
    [][\A j \in DOMAIN tasks :
          DispatchedParallel(j) =>
              \E i \in DOMAIN Suitable(tasks[j].type) :
                  LET suitable == Suitable(tasks[j].type)
                      chosen == suitable[i]
                  IN /\ chosen.id = tasks'[j].assigned_workers[1]
                     /\ \A k \in DOMAIN suitable :
                           /\ ~KeyLess(chosen, suitable[k])
                           /\ ~KeyLess(suitable[k], chosen) => chosen.id <= suitable[k].id]_vars

\* C30: a job or a subtask whose POST to the chosen node failed is back on the
\* pool's queue, to be dispatched again: none is dropped, in parallel mode and
\* in combined mode, where only some of the POSTs of a batch may fail.
C30_FailedSendRequeued ==
    \A u \in send_failed : \E i \in DOMAIN task_queue : task_queue[i].task_id = u[1]

\* The task_result frames the client has sent for this task.
ResultsFor(task_id) ==
    LET IsResult(f) == f.type = "task_result" /\ f.task_id = task_id
    IN SelectSeq(ws_sent, IsResult)

\* The client received this task with the channel open: it has announced
\* that it is processing it.
Announced(task_id) == TaskStatusFrame(task_id, "processing") \in Range(ws_sent)

\* C25: once the client has handled a task frame that it received with the
\* channel open, it has sent exactly one task_result frame for that task_id,
\* completed with the result or failed with an error, whatever happened to the
\* control channel while the pipeline ran.
C25_OneResultPerTask ==
    \A id \in handled :
        Announced(id) =>
        /\ Len(ResultsFor(id)) = 1
        /\ \/ ResultsFor(id)[1].status = "completed" /\ "result" \in DOMAIN ResultsFor(id)[1]
           \/ ResultsFor(id)[1].status = "failed" /\ "error" \in DOMAIN ResultsFor(id)[1]

\* C26: while a pipeline runs the reader is not held: a ping that waits on the
\* channel can be received and answered at once, before the pipeline returns.
C26_ReaderNotHeld ==
    (reader.at = "pipeline" /\ ws_inbox # <<>> /\ Head(ws_inbox) = Ping)
        => ENABLED (reader_recv /\ ClientStep)

\* The recorded status of a task of the node, None when it has no record.
StatusOf(results, task_id) ==
    IF task_id \in DOMAIN results THEN Get(results, task_id, None).status ELSE None

\* C27: DELETE /task/{id} turns a pending task into a cancelled one and leaves
\* a task in any other status as it is; a cancelled task is never taken for
\* execution by the queue processor and its status never changes again.
C27_CancelledIsFinal ==
    [][\A id \in 1..MaxNodeTasks :
          /\ node_cancel_task(id) =>
                /\ StatusOf(state.task_results, id) = "pending" =>
                      StatusOf(state'.task_results, id) = "cancelled"
                /\ StatusOf(state.task_results, id) # "pending" => state' = state
          /\ StatusOf(state.task_results, id) = "cancelled" =>
                /\ StatusOf(state'.task_results, id) = "cancelled"
                /\ state'.current_task # <<id>>]_vars

\* The claims on failed dispatches, the reconnect delay, dropped frames, the
\* health monitor and the supervisor's reports.

\* C31: after a dispatch to a node failed with a transport error the status of
\* that node is error, so that it is not selected again before its next
\* successful probe.
C31_FailedNodeIsError ==
    [][\A u \in send_failed' \ send_failed :
          (u[2] = 0 /\ Head(task_queue).mode # "combined") =>
              LET chosen == PoolSortedHead(get_available_workers) IN
              pool_workers'[IndexOf(pool_workers', chosen.id)].status = "error"]_vars

\* The wait the loop makes after this one when no connection is established
\* in between.
WaitAfter(w) == IF w * 2 <= 60 THEN w * 2 ELSE 60

\* C32: the reconnect delay is always between 5 s and 60 s; the first wait of
\* the loop and the first wait after a connection that was established are
\* 5 s, and each wait after another is twice that one, 60 s at most: 5, 10,
\* 20, 40, 60, 60.
C32_DelayDoublesAndResets ==
    /\ 5 <= delay /\ delay <= 60
    /\ \A i \in DOMAIN waits :
          waits[i] # 0 =>
              /\ 5 <= waits[i] /\ waits[i] <= 60
              /\ waits[i] = IF i = 1 \/ waits[i - 1] = 0 THEN 5
                            ELSE WaitAfter(waits[i - 1])

\* C32 witness: five attempts failed with waits of 5, 10, 20, 40 and 60 s, a
\* sixth waited 60 s again, then a connection was established and lost, and
\* the wait after its loss was 5 s.
C32_Witness ==
    waits = <<5, 10, 20, 40, 60, 60, 0, 5>>

\* C33: a frame that is no JSON, has an unknown type or whose handler raises
\* is dropped: the channel stays as it was, the loop stays inside its
\* connection, nothing is sent, and the reader is at its receive for the frames
\* that follow.
C33_DroppedFrameKeepsChannel ==
    [][(/\ reader = AtRecv
        /\ ws_inbox # <<>>
        /\ ws_inbox' = Tail(ws_inbox)
        /\ Dropped(Head(ws_inbox)))
          => /\ ws_open' = ws_open
             /\ conn' = conn
             /\ waits' = waits
             /\ ws_sent' = ws_sent
             /\ reader' = AtRecv]_vars

\* C33 witness: on its first connection, still open, the client dropped a
\* garbled message and answered the ping that followed it.
C33_Witness ==
    /\ ws_open
    /\ waits = <<0>>
    /\ recv_log = <<"garbled", "ping">>
    /\ Pong \in Range(ws_sent)

\* The workers of this platform among these keys.
KeysOf(keys, p) == {w \in keys : w[1] = p}

\* C34: the health monitor replaces each dead worker by a fresh process under
\* the same key: after every step the worker keys, and so the number of
\* workers of each platform, are those initialize created; a step that
\* restarts a dead worker restarts all of them and leaves the live ones as
\* they are; and a live worker that holds a task becomes idle only by putting
\* its report, never by being replaced.
C34_DeadReplacedLiveKept ==
    [][/\ DOMAIN workers' = HealthKeys
       /\ \A p \in Range(HealthPlatforms) :
             Cardinality(KeysOf(DOMAIN workers', p)) = Cardinality(KeysOf(HealthKeys, p))
       /\ (\E d \in DOMAIN workers : ~workers[d].alive /\ workers'[d].alive) =>
             \A w \in DOMAIN workers :
                 workers'[w] = IF workers[w].alive THEN workers[w] ELSE NewProcess
       /\ \A w \in DOMAIN workers :
             (/\ workers[w].alive
              /\ workers[w].current_task # <<>>
              /\ workers'[w] = NewProcess) =>
                 /\ Len(result_queue') = Len(result_queue) + 1
                 /\ result_queue'[Len(result_queue')].task_id = workers[w].current_task[1].id
                 /\ result_queue'[Len(result_queue')].worker_id = w[2]]_vars

\* C34 witness: every worker is alive, one of them holds a task, and a live
\* task is in no mailbox, in no worker's hands and in no report: the worker
\* that held it died and was replaced while the other went on.
C34_Witness ==
    /\ DOMAIN workers = HealthKeys
    /\ \A w \in HealthKeys : workers[w].alive
    /\ \E w \in HealthKeys : workers[w].current_task # <<>>
    /\ \E id \in DOMAIN active_tasks :
          /\ \A p \in Range(HealthPlatforms) :
                \A i \in DOMAIN worker_queues[p] : worker_queues[p][i].id # id
          /\ \A w \in HealthKeys :
                \A t \in Range(workers[w].current_task) : t.id # id
          /\ \A i \in DOMAIN result_queue : result_queue[i].task_id # id

\* C35: a submit_task whose write to the pending key fails puts nothing on
\* the platform mailbox, adds nothing to the live-task map and leaves the
\* counters as they are.
C35_FailedWriteChangesNothing ==
    [][submit_errors' # submit_errors =>
          /\ worker_queues' = worker_queues
          /\ active_tasks' = active_tasks
          /\ stats' = stats
          /\ redis_pending' = redis_pending]_vars

\* C35 witness: the submission of one task failed and the task is nowhere,
\* while another task was submitted and counted.
C35_Witness ==
    /\ stats.tasks_queued = 1
    /\ \E id \in submit_errors :
          /\ id \notin DOMAIN active_tasks \cup DOMAIN completed_tasks
          /\ \A p \in Platforms :
                \A i \in DOMAIN worker_queues[p] : worker_queues[p][i].id # id


\* The records published on laravel:results for this task id.
PublishedFor(list, id) == SelectSeq(list, LAMBDA r : r.id = id)

\* The reports the result processor has counted.
Counted(st) == st.tasks_processed + st.tasks_failed

\* C36 as stated: for each task id at most one record is on laravel:results
\* and the task is counted at most once, however many reports arrived.
C36_OneRecordPerId ==
    \A id \in TaskIds : Len(PublishedFor(laravel_results, id)) <= 1

\* C36: a report is applied only to an id that is in the live-task map, and
\* applying it removes the id from the map, publishes at most one record and
\* counts it once: so between two entries of an id in the map at most one
\* record is published and one count made, however many reports arrive. A
\* report for an id that is not in the map changes no map, no counter and
\* publishes nothing.
C36_OncePerLiveEntry ==
    [][/\ (laravel_results' # laravel_results \/ Counted(stats') # Counted(stats)) =>
            \E id \in DOMAIN active_tasks :
                /\ id \notin DOMAIN active_tasks'
                /\ Head(result_queue).task_id = id
                /\ Counted(stats') = Counted(stats) + 1
                /\ Len(laravel_results') <= Len(laravel_results) + 1
                /\ \A other \in TaskIds \ {id} :
                      PublishedFor(laravel_results', other)
                          = PublishedFor(laravel_results, other)
       /\ (/\ result_queue # <<>>
           /\ result_queue' = Tail(result_queue)
           /\ Head(result_queue).task_id \notin DOMAIN active_tasks) =>
            /\ active_tasks' = active_tasks
            /\ completed_tasks' = completed_tasks
            /\ stats' = stats
            /\ laravel_results' = laravel_results]_vars

\* C36 witness: the same id was delivered twice and reported twice; the first
\* report was published and counted, the second found the id gone and was
\* dropped.
C36_Witness ==
    /\ Len(arrivals) = 2
    /\ arrivals[1].data.id = arrivals[2].data.id
    /\ result_queue = <<>>
    /\ DOMAIN active_tasks = {}
    /\ \A p \in Platforms : worker_queues[p] = <<>>
    /\ \A w \in WorkerKeys : workers[w].alive /\ workers[w].current_task = <<>>
    /\ Counted(stats) = 1
    /\ Len(PublishedFor(laravel_results, arrivals[1].data.id)) = 1

\* The last report put on the result queue.
LastReport(queue) == queue[Len(queue)]

\* C37: a live worker that holds a task lets go of it only by putting one
\* report for that task id on the result queue, completed when process_task
\* returned success and failed when it returned a failure or raised; it takes
\* the next record only when it holds none, and puts no report otherwise.
C37_OneReportPerTask ==
    [][\A w \in DOMAIN workers :
          LET held == workers[w].current_task
              mine == ReportsOf(result_queue, w)
              mine_after == ReportsOf(result_queue', w)
          IN /\ (workers[w].alive /\ held # <<>> /\ workers'[w] # workers[w]
                    /\ workers'[w].alive) =>
                   /\ workers'[w].current_task = <<>>
                   /\ result_queue' = Append(result_queue, LastReport(result_queue'))
                   /\ LastReport(result_queue').worker_id = w[2]
                   /\ LastReport(result_queue').task_id = held[1].id
                   /\ LastReport(result_queue').status
                         = IF LastReport(result_queue').result = "success"
                           THEN "completed" ELSE "failed"
             /\ (held = <<>> /\ workers'[w].current_task # <<>>) =>
                   result_queue' = result_queue
             /\ Len(mine_after) > Len(mine) =>
                   /\ Len(mine_after) = Len(mine) + 1
                   /\ workers[w].alive /\ held # <<>>
                   /\ workers'[w].current_task = <<>>]_vars

\* C37 witness: a worker whose handler raised has put the failed report of
\* that task and now holds the next record of its mailbox.
C37_Witness ==
    \E w \in DOMAIN workers :
        /\ workers[w].alive
        /\ workers[w].current_task # <<>>
        /\ \E i \in DOMAIN result_queue :
              /\ result_queue[i].worker_id = w[2]
              /\ result_queue[i].status = "failed"
              /\ result_queue[i].error = "err"
              /\ result_queue[i].task_id # workers[w].current_task[1].id

\* cancel_task returned True for this id: its record is in the completed map
\* with the status cancelled.
IsCancelled(id) ==
    /\ id \in DOMAIN completed_tasks
    /\ completed_tasks[id].status = "cancelled"

\* C40: no worker takes from its mailbox the record of a task that was
\* cancelled while the record waited there (task ids being unique, a cancelled
\* task whose record is still on a mailbox was cancelled while it waited).
C40_CancelledNotExecuted ==
    [][UniqueIds =>
          \A w \in DOMAIN workers :
              (workers[w].current_task = <<>> /\ workers'[w].current_task # <<>>) =>
                  ~IsCancelled(workers'[w].current_task[1].id)]_vars

\* C38: the pool posts a job to a node only when the node holds no job the
\* pool posted before that is not over: none on the node's queue and none
\* running.
C38_NoSecondJobWhileHeld ==
    [][Len(state'.task_queue) > Len(state.task_queue) =>
          /\ state.task_queue = <<>>
          /\ state.current_task = None]_vars

\* C39: the worker a parallel job was posted to by the pool is the worker the
\* distributor wrote in the job's assigned_workers.
C39_AssignedIsSentTo ==
    \A sent \in sent_to :
        sent[1] \in DOMAIN tasks => tasks[sent[1]].assigned_workers = <<sent[2]>>
====
